---- MODULE Spec2Model ----
(***************************************************************************)
(* Connection hub and real-time message-delivery core of go-webchat.       *)
(*                                                                         *)
(* backend/websocket/hub.go : WebSocketHub.Run, Client.readPump,           *)
(*                            Client.writePump, the inbound handlers       *)
(* backend/models           : messages, conversations, users (storage)     *)
(* backend/handlers         : the HTTP handlers that touch the same data   *)
(*                                                                         *)
(* Goroutines are modelled as processes with a program counter; a          *)
(* rendezvous on an unbuffered channel (register, unregister) is one step  *)
(* taken by the hub while the sender is parked on the channel; a buffered  *)
(* channel (broadcast, Client.Send) is a bounded sequence.                 *)
(***************************************************************************)
EXTENDS Integers, Sequences, FiniteSets, Bags, TLC

\* ------------------------------------------------------------------ bounds
\* Connections accepted over one run (HandleWebSocket calls).
MaxConns == 2
\* Capacity of Client.Send; the code's 256 (hub.go:317) scaled down.
SendCap == 1
\* Capacity of WebSocketHub.broadcast; the code's 256 (hub.go:59) scaled down.
BroadcastCap == 2
\* Messages persisted over one run.
MaxMsgs == 1
\* Messages persisted over one run of concurrent senders.
MaxSends == 2
\* Inbound frames dropped over one run.
MaxDrops == 1
\* handlers.CreateConversation requests over one run.
MaxReqs == 2

\* HTTP handlers that remove a group member and run at the same time.
MaxHandlers == 1

\* WebSocket objects the browser client builds over one run.
MaxSockets == 6
\* Calls of setupSocketHandlers over one run.
MaxSetups == 2
\* Entries of chatStore.messages.
MaxEntries == 3
\* Keystrokes of the typist.
MaxKeys == 3

\* Connection attempts that are refused.
MaxRefused == 2

\* ------------------------------------------------------------- stored data
Users == {"A", "B", "C"}
NoVal == "-"

\* The users whose credentials are presented when a connection is opened.
Tokens == {"A", "B"}

\* Inbound payloads: message contents and client correlation tokens.
Contents == {"hi"}
TempIds == {"t1", "t2"}

\* What a connection attempt that is not registered presents: no token in the
\* query or the cookie, a token that fails validation, a valid token whose
\* user id is not a hexadecimal object id.
Credentials == {"none", "invalid", "badid"}

VARIABLES
    contacts,     \* users.contacts as stored, in the cursor order of GetContacts
    convs,        \* conversations collection; the id of a record is its index
    msgs,         \* messages collection; the id of a record is its index
    lastSeen,     \* users.last_seen : number of writes by UpdateLastSeen
    dbErr,        \* some storage call has returned an error so far
    clients,      \* WebSocketHub.clients : userID -> set of *Client
    broadcast,    \* WebSocketHub.broadcast : buffered channel of BroadcastMessage
    notify,       \* running notifyOnlineStatus goroutines (a bag)
    userID,       \* Client.UserID of each client
    Send,         \* Client.Send : buffered channel, its pending frames
    sendClosed,   \* close(client.Send) has been executed
    rpc,          \* position of readPump of each client
    wpc,          \* position of writePump of each client
    pend,         \* what the inbound handler of each client still has to broadcast
    panicked,     \* a goroutine hit a send on a closed channel
    creq,         \* running handlers.CreateConversation requests
    hreq,         \* running HTTP handlers: the notifications each still has to hand over
    unregs,       \* per client: requests received on WebSocketHub.unregister
    drops,        \* inbound frames read and dropped by readPump / handleMessage
    refused,      \* per refused upgrade: the frames written before c.Close()
    probes,       \* per client: parity of the keepalive pings written by writePump
    hubWait,      \* the user whose last_seen Run is writing, NoVal when Run is at its select
    mark,         \* how many hand-offs to the hub have been tagged (0..2)
    wire          \* per client: tags of the tagged frames written, in order

\* The browser client: lib/socket.ts (WebSocketClient), stores/socketStore.ts,
\* stores/chatStore.ts and components/chat/MessageInput.tsx.
VARIABLES
    ws,                 \* WebSocketClient.ws : 0 for null, else the socket
    readyState,         \* readyState of every WebSocket built so far
    reconnectAttempts,  \* WebSocketClient.reconnectAttempts
    timeouts,           \* pending setTimeout(() => this.connect(), delay): the delays
    handlers,           \* size of each Set of WebSocketClient.handlers
    isConnected,        \* socketStore.isConnected
    isConnecting,       \* socketStore.isConnecting
    awaited,            \* the socket whose promise socketStore.connect awaits, 0 for none
    userClosed,         \* disconnect() was called and connect() was not called since
    currentConversation,\* chatStore.currentConversation (its id), 0 for null
    messages,           \* chatStore.messages : the ids of the entries
    onlineUsers,        \* chatStore.onlineUsers
    chatContacts,       \* chatStore.contacts : is_online of each contact
    conversations,      \* chatStore.conversations : other_user of each conversation
    typingUsers,        \* chatStore.typingUsers : conversation id -> set of user ids
    inputTyping,        \* MessageInput state isTyping, at the typist
    typingTimeout,      \* typingTimeoutRef.current holds a pending timeout, at the typist
    typistOpen,         \* the socket of the typist is OPEN
    relay,              \* typing frames of the typist on their way to the receiver
    keys                \* keystrokes of the typist so far

sockVars == <<ws, readyState, reconnectAttempts, timeouts, handlers, isConnected, isConnecting,
              awaited, userClosed>>
chatVars == <<currentConversation, messages, onlineUsers, chatContacts, conversations>>
typingVars == <<typingUsers, inputTyping, typingTimeout, typistOpen, relay, keys>>
feVars == <<sockVars, chatVars, typingVars>>

storeVars == <<contacts, convs, msgs, lastSeen, dbErr>>
hubVars == <<clients, broadcast, notify>>
connVars == <<userID, Send, sendClosed, rpc, wpc, pend, panicked>>
auxVars == <<hreq, drops, refused, probes, hubWait>>
serverVars == <<storeVars, hubVars, connVars, creq, unregs, auxVars, mark, wire>>
vars == <<storeVars, hubVars, connVars, creq, unregs, auxVars, mark, wire, feVars>>

\* The clients built so far, numbered in the order HandleWebSocket built them.
Conns == DOMAIN rpc

Range(seq) == {seq[i] : i \in DOMAIN seq}

\* ------------------------------------------------------------------ frames
\* WSMessage {type, payload}.  tag is not part of the frame: it names the
\* first (1) and the second (2) of two observed hand-offs to the hub, so that
\* their order on the wire can be stated; every other frame has tag 0.
Frame(type, user, conv, msg, temp, content, status) ==
    [type |-> type, user |-> user, conv |-> conv, msg |-> msg, temp |-> temp,
     content |-> content, status |-> status, tag |-> 0]

NoFrame == Frame(NoVal, NoVal, 0, 0, NoVal, NoVal, NoVal)

PongFrame == Frame("pong", NoVal, 0, 0, NoVal, NoVal, NoVal)

\* notifyOnlineStatus: {type: user:online | user:offline, user_id}
PresenceFrame(u, isOnline) ==
    Frame(IF isOnline THEN "user:online" ELSE "user:offline",
          u, 0, 0, NoVal, NoVal, NoVal)

\* handleSendMessage: {type: message:sent, temp_id, message_id, status: sent}
SentFrame(temp, id) == Frame("message:sent", NoVal, 0, id, temp, NoVal, "sent")

\* handleSendMessage: {type: message:new, message: MessageWithSender}
NewFrame(id, m) == Frame("message:new", m.sender, m.conv, id, NoVal, m.content, m.status)

\* handleTyping: {type: user:typing | user:typing_stop, conversation_id, user_id}
TypingFrame(conv, u, isTyping) ==
    Frame(IF isTyping THEN "user:typing" ELSE "user:typing_stop",
          u, conv, 0, NoVal, NoVal, NoVal)

\* handleMessageRead: {type: message:status, message_id, status: read, read_by}
StatusFrame(id, reader) == Frame("message:status", reader, 0, id, NoVal, NoVal, "read")

\* HandleWebSocket: {type: error, message}
ErrorFrame(message) == Frame("error", NoVal, 0, 0, NoVal, message, NoVal)

\* handlers.RemoveGroupMember: {type: group:removed, group_id}
GroupRemovedFrame(conv) == Frame("group:removed", NoVal, conv, 0, NoVal, NoVal, NoVal)

\* handlers.RemoveGroupMember: {type: group:member_removed, group_id, member_id}
MemberRemovedFrame(conv, member) ==
    Frame("group:member_removed", member, conv, 0, NoVal, NoVal, NoVal)

\* handlers.AddGroupMember: {type: group:added, group_id, group_name}
GroupAddedFrame(conv) == Frame("group:added", NoVal, conv, 0, NoVal, NoVal, NoVal)

\* handlers.AddGroupMember: {type: group:member_added, group_id, member}; the
\* member carries is_online, read from the hub when the frame is built.
MemberAddedFrame(conv, member) ==
    Frame("group:member_added", member, conv, 0, NoVal, NoVal, NoVal)

\* handlers.LeaveGroup: {type: group:member_left, group_id, member_id}
MemberLeftFrame(conv, member) ==
    Frame("group:member_left", member, conv, 0, NoVal, NoVal, NoVal)

NoPend == [conv |-> 0, frame |-> NoFrame]

\* ---------------------------------------------------------------- registry
HasKey(reg, u) == u \in DOMAIN reg

ConnsOf(reg, u) == IF HasKey(reg, u) THEN reg[u] ELSE {}

\* Variant: a user counts as online as soon as the registry has a key for it.
IsOnlineByKey(u) == HasKey(clients, u)

IsOnline(u) == HasKey(clients, u) /\ Cardinality(clients[u]) > 0

GetOnlineUsers == DOMAIN clients

\* register branch: h.clients[u][client] = true, creating the inner map.
AddClient(reg, u, c) ==
    [x \in DOMAIN reg \cup {u} |-> IF x = u THEN ConnsOf(reg, u) \cup {c} ELSE reg[x]]

\* delete(h.clients, u)
DeleteKey(reg, u) == [x \in DOMAIN reg \ {u} |-> reg[x]]

\* unregister branch: whether the client is in the registry.
Registered(reg, u, c) == HasKey(reg, u) /\ c \in reg[u]

\* Variant: closing one connection of a user drops the user from the registry.
RemoveUser(reg, u, c) == DeleteKey(reg, u)

\* unregister branch: delete(clients, client), and the key with the last one.
RemoveClient(reg, u, c) ==
    IF reg[u] \ {c} = {} THEN DeleteKey(reg, u) ELSE [reg EXCEPT ![u] = @ \ {c}]

\* Variant: an event for a user without a registry key goes to every connection
\* that has room.
FanoutUserOrEveryone(st, u, f) ==
    IF ~HasKey(st.clients, u)
    THEN [st EXCEPT !.Send = [c \in DOMAIN st.Send |->
                                IF Len(st.Send[c]) < SendCap /\ ~st.sendClosed[c]
                                THEN Append(st.Send[c], f) ELSE st.Send[c]]]
    ELSE LET targets == st.clients[u]
             full == {c \in targets : Len(st.Send[c]) >= SendCap}
         IN  [clients |-> [st.clients EXCEPT ![u] = @ \ full],
              Send |-> [c \in DOMAIN st.Send |->
                          IF c \in targets \ full THEN Append(st.Send[c], f)
                          ELSE st.Send[c]],
              sendClosed |-> [c \in DOMAIN st.Send |-> st.sendClosed[c] \/ c \in full]]

\* Variant: an event for a user goes to one of the user's connections only.
FanoutUserOne(st, u, f) ==
    IF ~HasKey(st.clients, u) \/ ConnsOf(st.clients, u) = {} THEN st
    ELSE LET one == CHOOSE c \in st.clients[u] : \A d \in st.clients[u] : c <= d
             targets == {one}
             full == {c \in targets : Len(st.Send[c]) >= SendCap}
         IN  [clients |-> [st.clients EXCEPT ![u] = @ \ full],
              Send |-> [c \in DOMAIN st.Send |->
                          IF c \in targets \ full THEN Append(st.Send[c], f)
                          ELSE st.Send[c]],
              sendClosed |-> [c \in DOMAIN st.Send |-> st.sendClosed[c] \/ c \in full]]

\* Variant: a full queue among the connections of the user closes and removes
\* all of them.
FanoutUserDropAll(st, u, f) ==
    IF ~HasKey(st.clients, u) THEN st
    ELSE LET targets == st.clients[u]
             full == IF \E c \in targets : Len(st.Send[c]) >= SendCap THEN targets ELSE {}
         IN  [clients |-> [st.clients EXCEPT ![u] = @ \ full],
              Send |-> [c \in DOMAIN st.Send |->
                          IF c \in targets \ full THEN Append(st.Send[c], f)
                          ELSE st.Send[c]],
              sendClosed |-> [c \in DOMAIN st.Send |-> st.sendClosed[c] \/ c \in full]]

\* Variant: the queue of a connection without room is closed, but the
\* connection stays in the registry.
FanoutUserKeep(st, u, f) ==
    IF ~HasKey(st.clients, u) THEN st
    ELSE LET targets == st.clients[u]
             full == {c \in targets : Len(st.Send[c]) >= SendCap}
         IN  [clients |-> st.clients,
              Send |-> [c \in DOMAIN st.Send |->
                          IF c \in targets \ full THEN Append(st.Send[c], f)
                          ELSE st.Send[c]],
              sendClosed |-> [c \in DOMAIN st.Send |-> st.sendClosed[c] \/ c \in full]]

\* broadcast branch, one user: enqueue on every connection of the user that
\* has room; close and delete(h.clients[userID], client) the others.
FanoutUser(st, u, f) ==
    IF ~HasKey(st.clients, u) THEN st
    ELSE LET targets == st.clients[u]
             full == {c \in targets : Len(st.Send[c]) >= SendCap}
         IN  [clients |-> [st.clients EXCEPT ![u] = @ \ full],
              Send |-> [c \in DOMAIN st.Send |->
                          IF c \in targets \ full THEN Append(st.Send[c], f)
                          ELSE st.Send[c]],
              sendClosed |-> [c \in DOMAIN st.Send |-> st.sendClosed[c] \/ c \in full]]

\* broadcast branch: for _, userID := range message.UserIDs
RECURSIVE Fanout(_, _, _)
Fanout(st, users, f) ==
    IF users = <<>> THEN st
    ELSE Fanout(FanoutUser(st, Head(users), f), Tail(users), f)

\* Variant: the hub takes the newest BroadcastMessage of the channel.
TakeNewest(q) == [msg |-> q[Len(q)], rest |-> SubSeq(q, 1, Len(q) - 1)]

\* case message := <-h.broadcast: the oldest BroadcastMessage of the channel.
TakeBroadcast(q) == [msg |-> Head(q), rest |-> Tail(q)]

\* ---------------------------------------------------------------- storage
\* Variant: every user is a member of every stored conversation.
IsMemberAnyone(cs, conv, u) == conv \in DOMAIN cs

\* models.IsMember: a conversation with this id that has the user as member.
IsMember(cs, conv, u) == conv \in DOMAIN cs /\ u \in Range(cs[conv].members)

\* Variant: a message is created with nobody in read_by.
NewMessageUnread(conv, sender, content) ==
    [conv |-> conv, sender |-> sender, content |-> content,
     status |-> "sent", readBy |-> {}]

\* models.CreateMessage: status sent, read_by [sender].
NewMessage(conv, sender, content) ==
    [conv |-> conv, sender |-> sender, content |-> content,
     status |-> "sent", readBy |-> {sender}]

\* models.MarkMessageAsRead: $addToSet read_by, $set status read, by _id.
MarkMessageAsRead(ms, id, u) ==
    [i \in DOMAIN ms |->
        IF i = id THEN [ms[i] EXCEPT !.readBy = @ \cup {u}, !.status = "read"]
        ELSE ms[i]]

\* Variant: the conversation-level read also sets the status to delivered.
MarkConversationAsDelivered(ms, conv, u) ==
    [i \in DOMAIN ms |->
        IF ms[i].conv = conv /\ ms[i].sender # u
        THEN [ms[i] EXCEPT !.readBy = @ \cup {u}, !.status = "delivered"]
        ELSE ms[i]]

\* Variant: the user is added to the readers of every stored message.
MarkEverythingAsRead(ms, conv, u) ==
    [i \in DOMAIN ms |-> [ms[i] EXCEPT !.readBy = @ \cup {u}]]

\* models.MarkConversationAsRead: $addToSet read_by on every message of the
\* conversation whose sender is not the user.
MarkConversationAsRead(ms, conv, u) ==
    [i \in DOMAIN ms |->
        IF ms[i].conv = conv /\ ms[i].sender # u
        THEN [ms[i] EXCEPT !.readBy = @ \cup {u}]
        ELSE ms[i]]

\* models.UpdateLastSeen: $set last_seen.
UpdateLastSeen(ls, u) == [ls EXCEPT ![u] = @ + 1]

\* models.GetContacts
GetContacts(u) == contacts[u]

\* models.FindPrivateConversation: a private conversation whose members are
\* exactly the two users, 0 when there is none.
FindPrivateConversation(cs, u1, u2) ==
    LET hits == {i \in DOMAIN cs : cs[i].type = "private"
                                   /\ Range(cs[i].members) = {u1, u2}
                                   /\ Len(cs[i].members) = 2}
    IN  IF hits = {} THEN 0 ELSE CHOOSE i \in hits : \A j \in hits : i <= j

\* models.CreateGroup: "Remove duplicates", the first occurrence is kept.
RECURSIVE Unique(_)
Unique(ids) ==
    IF ids = <<>> THEN <<>>
    ELSE LET front == Unique(SubSeq(ids, 1, Len(ids) - 1))
             last == ids[Len(ids)]
         IN  IF last \in Range(front) THEN front ELSE Append(front, last)

\* models.CreateGroup: the admin is put in front of the requested members.
CreateGroup(adminID, memberIDs) ==
    [type |-> "group", members |-> Unique(<<adminID>> \o memberIDs), admin |-> adminID]

\* models.AddGroupMember: $addToSet of the member to members.
AddToSet(members, member) ==
    IF member \in Range(members) THEN members ELSE Append(members, member)

\* models.RemoveGroupMember: $pull of the member from members.
Pull(members, member) == SelectSeq(members, LAMBDA x : x # member)

\* Variant: nobody is excluded from the members.
WithoutNobody(members, u) == members

\* BroadcastToConversation: the members of the conversation, without the
\* excluded user.
RECURSIVE Without(_, _)
Without(members, u) ==
    IF members = <<>> THEN <<>>
    ELSE IF Head(members) = u THEN Without(Tail(members), u)
    ELSE <<Head(members)>> \o Without(Tail(members), u)

\* ---------------------------------------------------------- browser client
\* The client is the browser of user A.  Its contacts, and the other users
\* of its private conversations, are B and C; conversation 3 is a group.
ContactIds == {"B", "C"}
ConvIds == {1, 2, 3}
OtherUser == <<"B", "C", NoVal>>

\* The user whose keystrokes are followed, and the conversation typed in.
Typist == "B"

\* socket.ts: private maxReconnectAttempts = 5; private reconnectDelay = 1000
maxReconnectAttempts == 5
reconnectDelay == 1000

\* new WebSocketClient(), create<SocketState>(...), create<ChatState>(...),
\* and the MessageInput of the typist after its first render.
ClientApp ==
    /\ ws = 0
    /\ readyState = <<>>
    /\ reconnectAttempts = 0
    /\ timeouts = <<>>
    /\ handlers = 0
    /\ isConnected = FALSE
    /\ isConnecting = FALSE
    /\ awaited = 0
    /\ userClosed = FALSE
    /\ currentConversation = 0
    /\ messages = <<>>
    /\ onlineUsers = {}
    /\ chatContacts = [c \in {} |-> FALSE]
    /\ conversations = <<>>
    /\ typingUsers = [k \in {} |-> {}]
    /\ inputTyping = FALSE
    /\ typingTimeout = FALSE
    /\ typistOpen = TRUE
    /\ relay = <<>>
    /\ keys = 0

\* The sockets built so far, numbered in the order of new WebSocket(url).
Sockets == DOMAIN readyState

\* this.ws?.readyState === WebSocket.OPEN
WsOpen == ws # 0 /\ readyState[ws] = "OPEN"

\* Variant: a reconnect is attempted whatever the count of attempts.
CanReconnectAlways(n) == TRUE

\* attemptReconnect: this.reconnectAttempts < this.maxReconnectAttempts
CanReconnect(n) == n < maxReconnectAttempts

\* attemptReconnect: this.reconnectDelay * Math.pow(2, this.reconnectAttempts - 1)
Delay(n) == reconnectDelay * 2^(n - 1)

\* attemptReconnect(): count the attempt and setTimeout(() => this.connect(), delay).
AttemptReconnect ==
    IF CanReconnect(reconnectAttempts)
    THEN /\ reconnectAttempts' = reconnectAttempts + 1
         /\ timeouts' = Append(timeouts, Delay(reconnectAttempts + 1))
    ELSE UNCHANGED <<reconnectAttempts, timeouts>>

\* What isConnected becomes by notifyConnection(connected): every handler of
\* connectionHandlers, registered by setupSocketHandlers, sets it.
NotifyConnection(connected) == IF handlers > 0 THEN connected ELSE isConnected

\* socketStore.connect(token): returns at once while connected or connecting;
\* else setupSocketHandlers() adds one handler to every Set, and
\* wsClient.connect(token) resolves at once on an open socket or builds a new
\* socket, whose promise the store awaits.
StoreConnect ==
    /\ ~isConnected /\ ~isConnecting
    /\ handlers < MaxSetups
    /\ handlers' = handlers + 1
    /\ userClosed' = FALSE
    /\ IF WsOpen
       THEN /\ isConnected' = TRUE
            /\ UNCHANGED <<ws, readyState, isConnecting, awaited>>
       ELSE /\ Len(readyState) < MaxSockets
            /\ readyState' = Append(readyState, "CONNECTING")
            /\ ws' = Len(readyState) + 1
            /\ awaited' = Len(readyState) + 1
            /\ isConnecting' = TRUE
            /\ UNCHANGED isConnected
    /\ UNCHANGED <<reconnectAttempts, timeouts, chatVars, typingVars, serverVars>>

\* socketStore.disconnect(): wsClient.disconnect() calls close() on this.ws
\* and sets this.ws to null; then set({isConnected: false}).  close() on a
\* socket that is CLOSING or CLOSED does nothing.
StoreDisconnect ==
    /\ IF ws # 0
       THEN /\ readyState' = [readyState EXCEPT ![ws] =
                                 IF @ \in {"CONNECTING", "OPEN"} THEN "CLOSING" ELSE @]
            /\ ws' = 0
       ELSE UNCHANGED <<ws, readyState>>
    /\ isConnected' = FALSE
    /\ userClosed' = TRUE
    /\ UNCHANGED <<reconnectAttempts, timeouts, handlers, isConnecting, awaited,
                   chatVars, typingVars, serverVars>>

\* ws.onopen of socket s, and the continuation of socketStore.connect when
\* it awaits the promise of s (resolve()).
OnOpen(s) ==
    /\ readyState[s] = "CONNECTING"
    /\ readyState' = [readyState EXCEPT ![s] = "OPEN"]
    /\ reconnectAttempts' = 0
    /\ IF awaited = s
       THEN /\ isConnected' = TRUE
            /\ isConnecting' = FALSE
            /\ awaited' = 0
       ELSE /\ isConnected' = NotifyConnection(TRUE)
            /\ UNCHANGED <<isConnecting, awaited>>
    /\ UNCHANGED <<ws, timeouts, handlers, userClosed, chatVars, typingVars, serverVars>>

\* The close event of socket s: after close() was called on it, after the
\* connection attempt failed, or after the open connection was lost.  A
\* socket that never opened fires ws.onerror first, which rejects the promise
\* (the catch of socketStore.connect); then ws.onclose runs
\* notifyConnection(false) and attemptReconnect().
OnClose(s) ==
    /\ readyState[s] \in {"CONNECTING", "OPEN", "CLOSING"}
    /\ readyState' = [readyState EXCEPT ![s] = "CLOSED"]
    /\ IF awaited = s
       THEN /\ isConnecting' = FALSE
            /\ awaited' = 0
       ELSE UNCHANGED <<isConnecting, awaited>>
    /\ isConnected' = IF awaited = s THEN FALSE ELSE NotifyConnection(FALSE)
    /\ AttemptReconnect
    /\ UNCHANGED <<ws, handlers, userClosed, chatVars, typingVars, serverVars>>

\* A timeout set by attemptReconnect fires: this.connect() without a token,
\* its promise dropped.
TimeoutFires(i) ==
    /\ i \in DOMAIN timeouts
    /\ timeouts' = SubSeq(timeouts, 1, i - 1) \o SubSeq(timeouts, i + 1, Len(timeouts))
    /\ IF WsOpen
       THEN UNCHANGED <<ws, readyState>>
       ELSE /\ Len(readyState) < MaxSockets
            /\ readyState' = Append(readyState, "CONNECTING")
            /\ ws' = Len(readyState) + 1
    /\ UNCHANGED <<reconnectAttempts, handlers, isConnected, isConnecting, awaited, userClosed,
                   chatVars, typingVars, serverVars>>

\* chatStore.addMessage(message), called n times in a row for the message
\* with the given id: appended to messages when it belongs to the current
\* conversation.
RECURSIVE AddMessage(_, _, _, _)
AddMessage(list, conv, id, n) ==
    IF n = 0 THEN list
    ELSE AddMessage(IF currentConversation = conv THEN Append(list, id) ELSE list,
                    conv, id, n - 1)

\* ws.onmessage of socket s with a message:new frame of conversation conv:
\* handleMessage calls every handler registered for the type, and each
\* handler calls chatStore.addMessage.
OnMessageNew(s, conv) ==
    /\ readyState[s] = "OPEN"
    /\ Len(messages) < MaxEntries
    /\ messages' = AddMessage(messages, conv, Len(messages) + 1, handlers)
    /\ UNCHANGED <<sockVars, currentConversation, onlineUsers, chatContacts, conversations,
                   typingVars, serverVars>>

\* chatStore.setCurrentConversation(conversation)
SetCurrentConversation(conv) ==
    /\ currentConversation # conv
    /\ currentConversation' = conv
    /\ UNCHANGED <<sockVars, messages, onlineUsers, chatContacts, conversations,
                   typingVars, serverVars>>

\* chatStore.setUserOnline(userId, isOnline)
SetUserOnline(u, isOnline) ==
    LET newOnlineUsers == IF isOnline THEN onlineUsers \cup {u} ELSE onlineUsers \ {u} IN
    /\ onlineUsers' = newOnlineUsers
    /\ chatContacts' = [c \in DOMAIN chatContacts |-> c \in newOnlineUsers]
    /\ conversations' = [k \in DOMAIN conversations |->
                            IF conversations[k].other # NoVal /\ conversations[k].other = u
                            THEN [conversations[k] EXCEPT !.is_online = isOnline]
                            ELSE conversations[k]]

\* The handlers of user:online and user:offline.
OnPresence(u, isOnline) ==
    /\ SetUserOnline(u, isOnline)
    /\ UNCHANGED <<sockVars, currentConversation, messages, typingVars, serverVars>>

\* chatStore.fetchContacts(): set({contacts: response.contacts}), each
\* contact with the is_online the server computed.
FetchContacts(response) ==
    /\ chatContacts' = response
    /\ chatContacts' # chatContacts
    /\ UNCHANGED <<sockVars, currentConversation, messages, onlineUsers, conversations,
                   typingVars, serverVars>>

\* chatStore.fetchConversations(): set({conversations: response.conversations}),
\* each other_user with the is_online the server computed.
FetchConversations(response) ==
    /\ conversations' = response
    /\ conversations' # conversations
    /\ UNCHANGED <<sockVars, currentConversation, messages, onlineUsers, chatContacts,
                   typingVars, serverVars>>

\* What the server can answer: the contacts, and the three conversations.
ContactsResponses == [ContactIds -> BOOLEAN]
ConversationsResponses ==
    {[k \in ConvIds |-> [other |-> OtherUser[k], is_online |-> OtherUser[k] \in on]] :
        on \in SUBSET ContactIds}

\* chatStore.setUserTyping(conversationId, userId, isTyping)
SetUserTyping(conv, u, typing) ==
    [k \in DOMAIN typingUsers \cup {conv} |->
        LET users == IF k \in DOMAIN typingUsers THEN typingUsers[k] ELSE {} IN
        IF k # conv THEN users
        ELSE IF typing THEN users \cup {u} ELSE users \ {u}]

\* wsClient.send of the typist: dropped unless the socket is OPEN; the server
\* relays typing:start as user:typing and typing:stop as user:typing_stop.
TypistSend(type, conv) ==
    IF typistOpen THEN Append(relay, [type |-> type, conv |-> conv, user |-> Typist])
    ELSE relay

\* MessageInput.handleTyping of the typist, on a keystroke in conversation 1.
HandleTyping ==
    /\ keys < MaxKeys
    /\ keys' = keys + 1
    /\ IF ~inputTyping
       THEN /\ inputTyping' = TRUE
            /\ relay' = TypistSend("user:typing", 1)
       ELSE UNCHANGED <<inputTyping, relay>>
    /\ typingTimeout' = TRUE
    /\ UNCHANGED <<typingUsers, typistOpen, sockVars, chatVars, serverVars>>

\* The timeout set by handleTyping fires.
TypingTimeoutFires ==
    /\ typingTimeout
    /\ typingTimeout' = FALSE
    /\ inputTyping' = FALSE
    /\ relay' = TypistSend("user:typing_stop", 1)
    /\ UNCHANGED <<typingUsers, typistOpen, keys, sockVars, chatVars, serverVars>>

\* The socket of the typist closes.
TypistCloses ==
    /\ typistOpen
    /\ typistOpen' = FALSE
    /\ UNCHANGED <<typingUsers, inputTyping, typingTimeout, relay, keys, sockVars, chatVars,
                   serverVars>>

\* A frame of the typist is lost on its way: handleTyping of the server
\* returns without a broadcast when models.IsMember fails (hub.go:468-491).
RelayLoses ==
    /\ relay # <<>>
    /\ relay' = Tail(relay)
    /\ UNCHANGED <<typingUsers, inputTyping, typingTimeout, typistOpen, keys, sockVars, chatVars,
                   serverVars>>

\* The handlers of user:typing and user:typing_stop, at the receiver.
OnTyping ==
    /\ relay # <<>>
    /\ typingUsers' = SetUserTyping(Head(relay).conv, Head(relay).user,
                                    Head(relay).type = "user:typing")
    /\ relay' = Tail(relay)
    /\ UNCHANGED <<inputTyping, typingTimeout, typistOpen, keys, sockVars, chatVars, serverVars>>

\* ------------------------------------------------------------------- Init
\* The hub after NewHub and go Hub.Run(), no connection accepted yet.
NewHub ==
    /\ clients = [u \in {} |-> {}]
    /\ broadcast = <<>>
    /\ notify = EmptyBag
    /\ userID = <<>>
    /\ Send = <<>>
    /\ sendClosed = <<>>
    /\ rpc = <<>>
    /\ wpc = <<>>
    /\ pend = <<>>
    /\ panicked = FALSE
    /\ wire = <<>>
    /\ creq = <<>>
    /\ hreq = EmptyBag
    /\ drops = 0
    /\ refused = <<>>
    /\ probes = <<>>
    /\ hubWait = NoVal
    /\ unregs = <<>>

EmptyStore ==
    /\ convs = <<>>
    /\ msgs = <<>>
    /\ lastSeen = [u \in Users |-> 0]
    /\ dbErr = FALSE

\* Stored contacts: A and B have each other, C has both.
MutualContacts == [u \in Users |-> CASE u = "A" -> <<"B">>
                                      [] u = "B" -> <<"A">>
                                      [] OTHER -> <<"A", "B">>]

\* Stored contacts: only A has a contact, B.
OneContact == [u \in Users |-> IF u = "A" THEN <<"B">> ELSE <<>>]

NoContacts == [u \in Users |-> <<>>]

\* No hand-off is observed (both tags are spent).
Init == NewHub /\ EmptyStore /\ contacts = MutualContacts /\ mark = 2 /\ ClientApp

\* Two hand-offs, chosen freely, are observed.
InitFifo == NewHub /\ EmptyStore /\ contacts = OneContact /\ mark = 0 /\ ClientApp

\* The stored group conversation of the three users.
GroupABC == [type |-> "group", members |-> <<"A", "B", "C">>, admin |-> "A"]

\* The hub with one registered connection per entry of sessions: the pumps
\* run, the queues are drained, the presence goroutines of the registrations
\* have returned, the conversations cs are stored and no message.
EstablishedWith(sessions, cs) ==
    /\ contacts = NoContacts
    /\ convs = cs
    /\ msgs = <<>>
    /\ lastSeen = [u \in Users |-> 0]
    /\ dbErr = FALSE
    /\ clients = [u \in Range(sessions) |-> {c \in DOMAIN sessions : sessions[c] = u}]
    /\ broadcast = <<>>
    /\ notify = EmptyBag
    /\ userID = sessions
    /\ Send = [c \in DOMAIN sessions |-> <<>>]
    /\ sendClosed = [c \in DOMAIN sessions |-> FALSE]
    /\ rpc = [c \in DOMAIN sessions |-> "read"]
    /\ wpc = [c \in DOMAIN sessions |-> "run"]
    /\ pend = [c \in DOMAIN sessions |-> NoPend]
    /\ panicked = FALSE
    /\ wire = [c \in DOMAIN sessions |-> <<>>]
    /\ creq = <<>>
    /\ hreq = EmptyBag
    /\ drops = 0
    /\ refused = <<>>
    /\ probes = [c \in DOMAIN sessions |-> 0]
    /\ hubWait = NoVal
    /\ unregs = [c \in DOMAIN sessions |-> 0]
    /\ mark = 2
    /\ ClientApp

Established(sessions) == EstablishedWith(sessions, <<GroupABC>>)

\* A and B are connected once each, C is not connected.
Sessions == <<"A", "B">>

InitMsg == Established(Sessions)

\* A stored private conversation of A and C.
PrivateAC == [type |-> "private", members |-> <<"A", "C">>, admin |-> NoVal]

\* A and B are connected; B is no member of the only conversation.
InitVal == EstablishedWith(<<"A", "B">>, <<PrivateAC>>)

\* A stored private conversation of A and B.
PrivateAB == [type |-> "private", members |-> <<"A", "B">>, admin |-> NoVal]

\* A and B are connected and share the group and a private conversation.
InitCatch == EstablishedWith(<<"A", "B">>, <<GroupABC, PrivateAB>>)

\* A is connected once, B twice.
InitFan == Established(<<"A", "B", "B">>)

\* No connection; the conversations collection is empty.
InitConv == NewHub /\ EmptyStore /\ contacts = NoContacts /\ mark = 2 /\ ClientApp

\* --------------------------------------------------- hand-off to the hub
\* h.broadcast <- BroadcastMessage{UserIDs, Message}: blocks while the
\* buffer is full.  The hand-off may be one of the two observed ones.
SendToUsers(users, f) ==
    /\ Len(broadcast) < BroadcastCap
    /\ \E t \in {0} \cup (IF mark < 2 THEN {mark + 1} ELSE {}) :
          /\ broadcast' = Append(broadcast, [users |-> users, frame |-> [f EXCEPT !.tag = t]])
          /\ mark' = IF t = 0 THEN mark ELSE t

SendToUser(u, f) == SendToUsers(<<u>>, f)

\* Client.Conn.Close() has been executed: by the deferred call of readPump or
\* by the deferred call of writePump.
ConnClosed(c) == rpc[c] = "done" \/ wpc[c] = "done"

\* ------------------------------------------------------ WebSocketHub.Run
\* go h.notifyOnlineStatus(u, isOnline): models.GetContacts returns the
\* contacts, or fails, and then the goroutine returns at once.  The stored
\* contacts do not change, so the lookup is taken with the step that starts
\* the goroutine.
NotifyTask(u, isOnline) == [user |-> u, online |-> isOnline, todo |-> GetContacts(u)]

Spawn(tasks, u, isOnline, ok) ==
    IF ok /\ GetContacts(u) # <<>>
    THEN tasks (+) SetToBag({NotifyTask(u, isOnline)})
    ELSE tasks

\* register branch: whether a notifyOnlineStatus goroutine is started.
NotifiesOnline(reg, u) == TRUE

\* HandleWebSocket with a valid credential for user u builds the client and
\* calls Hub.Register; case client := <-h.register; the client goroutine then
\* starts writePump and enters readPump.
HubRegister(u) ==
    /\ hubWait = NoVal
    /\ Len(rpc) < MaxConns
    /\ LET c == Len(rpc) + 1 IN
       /\ userID' = Append(userID, u)
       /\ Send' = Append(Send, <<>>)
       /\ sendClosed' = Append(sendClosed, FALSE)
       /\ pend' = Append(pend, NoPend)
       /\ wire' = Append(wire, <<>>)
       /\ unregs' = Append(unregs, 0)
       /\ probes' = Append(probes, 0)
       /\ clients' = AddClient(clients, u, c)
       /\ IF NotifiesOnline(clients, u)
          THEN \E ok \in BOOLEAN : /\ notify' = Spawn(notify, u, TRUE, ok)
                                   /\ dbErr' = (dbErr \/ ~ok)
          ELSE UNCHANGED <<notify, dbErr>>
       /\ rpc' = Append(rpc, "read")
       /\ wpc' = Append(wpc, "run")
    /\ UNCHANGED <<feVars, contacts, convs, msgs, lastSeen, broadcast, panicked, creq, hreq, drops,
                   refused, hubWait, mark>>

\* HandleWebSocket with a credential that does not yield a user id: the two
\* token checks write an error frame before c.Close(), the check of the user
\* id only calls c.Close().  The attempt is recorded with the frames written
\* to it before the close.
RejectConnection(cred) ==
    /\ Len(refused) < MaxRefused
    /\ refused' = Append(refused,
                         CASE cred = "none" -> <<ErrorFrame("Authentication required")>>
                           [] cred = "invalid" -> <<ErrorFrame("Invalid token")>>
                           [] cred = "badid" -> <<>>)
    /\ UNCHANGED <<feVars, storeVars, hubVars, connVars, creq, unregs, hreq, drops, probes, hubWait, mark, wire>>

\* Where the goroutine that called Hub.Unregister goes on: the deferred call
\* of readPump is followed by c.Conn.Close() and the return of readPump, the
\* call inside sendMessage returns into the handler.
AfterUnregister(c) ==
    IF rpc[c] \in {"read", "panic"} THEN "done"
    ELSE IF pend[c] = NoPend THEN "read" ELSE "bcast"

\* case client := <-h.unregister.  The sender is readPump, whose
\* c.Conn.ReadMessage() returned an error (peer gone, or the transport closed
\* by writePump) or whose handler panicked, and whose deferred calls run; or
\* it is sendMessage, parked on the channel after it found the queue full.
HubUnregister(c) ==
    /\ hubWait = NoVal
    /\ rpc[c] \in {"read", "sm_unreg", "panic"}
    /\ LET u == userID[c] IN
       IF Registered(clients, u, c)
       THEN /\ clients' = RemoveClient(clients, u, c)
            /\ sendClosed' = [sendClosed EXCEPT ![c] = TRUE]
            /\ IF ~HasKey(clients', u)
               THEN \E ok \in BOOLEAN :
                       /\ notify' = Spawn(notify, u, FALSE, ok)
                       /\ lastSeen' = UpdateLastSeen(lastSeen, u)
                       /\ dbErr' = (dbErr \/ ~ok)
               ELSE UNCHANGED <<notify, lastSeen, dbErr>>
       ELSE UNCHANGED <<clients, sendClosed, notify, lastSeen, dbErr>>
    /\ rpc' = [rpc EXCEPT ![c] = AfterUnregister(c)]
    /\ unregs' = [unregs EXCEPT ![c] = @ + 1]
    /\ UNCHANGED <<feVars, contacts, convs, msgs, broadcast, userID, Send, wpc, pend, panicked,
                   creq, auxVars, mark, wire>>

\* case client := <-h.unregister, up to the call of models.UpdateLastSeen:
\* the steps of HubUnregister, but Run stays inside UpdateLastSeen, holding
\* h.mu, when the connection was the last one of its user.  The goroutine
\* that called Hub.Unregister goes on as soon as Run has received its request.
HubUnregisterReceive(c) ==
    /\ hubWait = NoVal
    /\ rpc[c] \in {"read", "sm_unreg", "panic"}
    /\ LET u == userID[c] IN
       IF Registered(clients, u, c)
       THEN /\ clients' = RemoveClient(clients, u, c)
            /\ sendClosed' = [sendClosed EXCEPT ![c] = TRUE]
            /\ IF ~HasKey(clients', u)
               THEN \E ok \in BOOLEAN :
                       /\ notify' = Spawn(notify, u, FALSE, ok)
                       /\ hubWait' = u
                       /\ dbErr' = (dbErr \/ ~ok)
               ELSE UNCHANGED <<notify, hubWait, dbErr>>
       ELSE UNCHANGED <<clients, sendClosed, notify, hubWait, dbErr>>
    /\ rpc' = [rpc EXCEPT ![c] = AfterUnregister(c)]
    /\ unregs' = [unregs EXCEPT ![c] = @ + 1]
    /\ UNCHANGED <<feVars, contacts, convs, msgs, lastSeen, broadcast, userID, Send, wpc, pend, panicked,
                   creq, hreq, drops, refused, probes, mark, wire>>

\* models.UpdateLastSeen returns to Run, which unlocks h.mu and goes back to
\* its select.
HubLastSeenDone ==
    /\ hubWait # NoVal
    /\ lastSeen' = UpdateLastSeen(lastSeen, hubWait)
    /\ hubWait' = NoVal
    /\ UNCHANGED <<feVars, contacts, convs, msgs, dbErr, hubVars, connVars, creq, unregs, hreq, drops,
                   refused, probes, mark, wire>>

\* The unregister of a connection whose transport has been closed by its
\* writePump: c.Conn.ReadMessage() fails and the deferred calls run.
ReadClosed(c) == ConnClosed(c) /\ HubUnregister(c)

\* case message := <-h.broadcast
HubBroadcast ==
    /\ hubWait = NoVal
    /\ broadcast # <<>>
    /\ LET m == TakeBroadcast(broadcast).msg
           st == Fanout([clients |-> clients, Send |-> Send, sendClosed |-> sendClosed],
                        m.users, m.frame)
       IN  /\ clients' = st.clients
           /\ Send' = st.Send
           /\ sendClosed' = st.sendClosed
    /\ broadcast' = TakeBroadcast(broadcast).rest
    /\ UNCHANGED <<feVars, storeVars, notify, userID, rpc, wpc, pend, panicked, creq, unregs, auxVars, mark, wire>>

\* --------------------------------------------------- notifyOnlineStatus
\* for _, contact := range contacts { h.SendToUser(contact.ID, ...) }
NotifySend(t) ==
    /\ BagIn(t, notify)
    /\ SendToUser(Head(t.todo), PresenceFrame(t.user, t.online))
    /\ notify' = IF Tail(t.todo) = <<>>
                 THEN notify (-) SetToBag({t})
                 ELSE (notify (-) SetToBag({t})) (+) SetToBag({[t EXCEPT !.todo = Tail(@)]})
    /\ UNCHANGED <<feVars, storeVars, clients, connVars, creq, unregs, auxVars, wire>>

\* ------------------------------------------------------ Client.readPump
\* Client.sendMessage: a non-blocking send on c.Send; on a full queue the
\* goroutine parks on Hub.Unregister; on a closed queue the send panics, the
\* handler is abandoned and the deferred calls of readPump run.
SendMessage(c, f, next) ==
    IF sendClosed[c]
    THEN /\ panicked' = TRUE
         /\ rpc' = [rpc EXCEPT ![c] = "panic"]
         /\ pend' = [pend EXCEPT ![c] = NoPend]
         /\ UNCHANGED Send
    ELSE IF Len(Send[c]) < SendCap
    THEN /\ Send' = [Send EXCEPT ![c] = Append(@, f)]
         /\ rpc' = [rpc EXCEPT ![c] = IF next = NoPend THEN "read" ELSE "bcast"]
         /\ pend' = [pend EXCEPT ![c] = next]
         /\ UNCHANGED panicked
    ELSE /\ rpc' = [rpc EXCEPT ![c] = "sm_unreg"]
         /\ pend' = [pend EXCEPT ![c] = next]
         /\ UNCHANGED <<Send, panicked>>

\* c.Conn.ReadMessage() returns a frame: only while the transport is open.
CanRead(c) == rpc[c] = "read" /\ ~ConnClosed(c)

\* case "ping"
ReadPing(c) ==
    /\ CanRead(c)
    /\ SendMessage(c, PongFrame, NoPend)
    /\ UNCHANGED <<feVars, storeVars, hubVars, userID, sendClosed, wpc, creq, unregs, auxVars, mark, wire>>

\* An inbound frame that a handler gives up on without any effect.
DropFrame ==
    /\ drops < MaxDrops
    /\ drops' = drops + 1

\* Variant: a frame that cannot be decoded ends the read loop.
ReadDroppedFatal(c) ==
    /\ CanRead(c)
    /\ DropFrame
    /\ rpc' = [rpc EXCEPT ![c] = "done"]
    /\ UNCHANGED <<feVars, storeVars, hubVars, userID, Send, sendClosed, wpc, pend, panicked,
                   creq, unregs, hreq, refused, probes, hubWait, mark, wire>>

\* readPump on a frame that json.Unmarshal rejects (continue), and
\* handleMessage on a type that no case of its switch names.
ReadDropped(c) ==
    /\ CanRead(c)
    /\ DropFrame
    /\ UNCHANGED <<feVars, storeVars, hubVars, connVars, creq, unregs, hreq, refused, probes, hubWait, mark, wire>>

\* Variant: the confirmation and the broadcast do not wait for the insert.
ReadSendMessageEager(c, conv, content, temp) ==
    /\ CanRead(c)
    /\ \E okMember, okCreate \in BOOLEAN :
          IF okMember /\ IsMember(convs, conv, userID[c])
          THEN LET m == NewMessage(conv, userID[c], content)
                   id == Len(msgs) + 1
               IN  /\ msgs' = IF okCreate THEN Append(msgs, m) ELSE msgs
                   /\ SendMessage(c, SentFrame(temp, id),
                                  [conv |-> conv, frame |-> NewFrame(id, m)])
                   /\ dbErr' = (dbErr \/ ~okCreate)
          ELSE /\ dbErr' = (dbErr \/ ~okMember)
               /\ UNCHANGED <<msgs, Send, rpc, pend, panicked>>
    /\ UNCHANGED <<feVars, contacts, convs, lastSeen, hubVars, userID, sendClosed, wpc, creq,
                   unregs, auxVars, mark, wire>>

\* Variant: a failed membership check or insert makes the connection ask to be
\* unregistered.
ReadSendMessageDropOnFail(c, conv, content, temp) ==
    /\ CanRead(c)
    /\ \E okMember, okCreate \in BOOLEAN :
          IF okMember /\ IsMember(convs, conv, userID[c]) /\ okCreate
          THEN LET m == NewMessage(conv, userID[c], content)
                   id == Len(msgs) + 1
               IN  /\ msgs' = Append(msgs, m)
                   /\ SendMessage(c, SentFrame(temp, id),
                                  [conv |-> conv, frame |-> NewFrame(id, m)])
                   /\ UNCHANGED dbErr
          ELSE /\ dbErr' = (dbErr \/ ~okMember \/ (IsMember(convs, conv, userID[c]) /\ ~okCreate))
               /\ rpc' = [rpc EXCEPT ![c] = IF IsMember(convs, conv, userID[c])
                                            THEN "sm_unreg" ELSE "read"]
               /\ UNCHANGED <<msgs, Send, pend, panicked>>
    /\ UNCHANGED <<feVars, contacts, convs, lastSeen, hubVars, userID, sendClosed, wpc, creq,
                   unregs, auxVars, mark, wire>>

\* case "message:send": handleSendMessage up to the confirmation to the
\* sender.  content = "" stands for an empty or missing content, conv = 0 for
\* a missing or undecodable conversation_id; both return before any storage
\* call.  models.IsMember and models.CreateMessage may fail.
ReadSendMessage(c, conv, content, temp) ==
    /\ CanRead(c)
    /\ IF content = "" \/ conv = 0
       THEN /\ DropFrame
            /\ UNCHANGED <<msgs, Send, rpc, pend, panicked, dbErr>>
       ELSE \E okMember, okCreate \in BOOLEAN :
               IF okMember /\ ~IsMember(convs, conv, userID[c])
               THEN /\ DropFrame
                    /\ UNCHANGED <<msgs, Send, rpc, pend, panicked, dbErr>>
               ELSE IF okMember /\ okCreate
               THEN LET m == NewMessage(conv, userID[c], content)
                        id == Len(msgs) + 1
                    IN  /\ msgs' = Append(msgs, m)
                        /\ SendMessage(c, SentFrame(temp, id),
                                       [conv |-> conv, frame |-> NewFrame(id, m)])
                        /\ UNCHANGED <<dbErr, drops>>
               ELSE /\ dbErr' = TRUE
                    /\ UNCHANGED <<msgs, Send, rpc, pend, panicked, drops>>
    /\ UNCHANGED <<feVars, contacts, convs, lastSeen, hubVars, userID, sendClosed, wpc, creq,
                   unregs, hreq, refused, probes, hubWait, mark, wire>>

\* Hub.BroadcastToConversation(convID, msg, &c.UserID) at the end of
\* handleSendMessage: models.FindConversationByID may fail, and then nothing
\* is handed to the hub.
HandlerBroadcast(c) ==
    /\ rpc[c] = "bcast"
    /\ \E ok \in BOOLEAN :
          IF ok /\ pend[c].conv \in DOMAIN convs
          THEN /\ SendToUsers(Without(convs[pend[c].conv].members, userID[c]), pend[c].frame)
               /\ UNCHANGED dbErr
          ELSE /\ dbErr' = TRUE
               /\ UNCHANGED <<broadcast, mark>>
    /\ rpc' = [rpc EXCEPT ![c] = "read"]
    /\ pend' = [pend EXCEPT ![c] = NoPend]
    /\ UNCHANGED <<feVars, contacts, convs, msgs, lastSeen, clients, notify, userID, Send,
                   sendClosed, wpc, panicked, creq, unregs, auxVars, wire>>

\* Variant: the typing event goes to the members the group was created with.
ReadTypingStale(c, conv, isTyping) ==
    /\ CanRead(c)
    /\ \E ok \in BOOLEAN :
          IF ok /\ conv \in DOMAIN convs
          THEN /\ SendToUsers(Without(GroupABC.members, userID[c]),
                              TypingFrame(conv, userID[c], isTyping))
               /\ UNCHANGED dbErr
          ELSE /\ dbErr' = TRUE
               /\ UNCHANGED <<broadcast, mark>>
    /\ UNCHANGED <<feVars, contacts, convs, msgs, lastSeen, clients, notify, connVars, creq, unregs, auxVars, wire>>

\* case "typing:start", "typing:stop": handleTyping.
ReadTyping(c, conv, isTyping) ==
    /\ CanRead(c)
    /\ \E ok \in BOOLEAN :
          IF ok /\ conv \in DOMAIN convs
          THEN /\ SendToUsers(Without(convs[conv].members, userID[c]),
                              TypingFrame(conv, userID[c], isTyping))
               /\ UNCHANGED dbErr
          ELSE /\ dbErr' = TRUE
               /\ UNCHANGED <<broadcast, mark>>
    /\ UNCHANGED <<feVars, contacts, convs, msgs, lastSeen, clients, notify, connVars, creq, unregs, auxVars, wire>>

\* Variant: the status event is handed to the hub for every user.
ReadMessageReadToAll(c, conv, id) ==
    /\ rpc[c] = "read" /\ ~(rpc[c] = "done" \/ wpc[c] = "done")
    /\ IF id # 0
       THEN /\ msgs' = [i \in DOMAIN msgs |->
                          IF i = id THEN [msgs[i] EXCEPT !.readBy = @ \cup {userID[c]},
                                                         !.status = "read"]
                          ELSE msgs[i]]
            /\ IF id \in DOMAIN msgs /\ msgs[id].sender # userID[c]
               THEN /\ Len(broadcast) < BroadcastCap
                    /\ broadcast' = Append(broadcast,
                                           [users |-> <<"A", "B", "C">>,
                                            frame |-> [type |-> "message:status", user |-> userID[c],
                                                       conv |-> 0, msg |-> id, temp |-> NoVal,
                                                       content |-> NoVal, status |-> "read",
                                                       tag |-> 0]])
                    /\ UNCHANGED mark
               ELSE UNCHANGED <<broadcast, mark>>
       ELSE /\ msgs' = [i \in DOMAIN msgs |->
                          IF msgs[i].conv = conv /\ msgs[i].sender # userID[c]
                          THEN [msgs[i] EXCEPT !.readBy = @ \cup {userID[c]}]
                          ELSE msgs[i]]
            /\ UNCHANGED <<broadcast, mark>>
    /\ UNCHANGED <<feVars, contacts, convs, lastSeen, dbErr, clients, notify, connVars, creq, unregs, auxVars, wire>>

\* case "message:read": handleMessageRead.  id = 0 stands for a frame without
\* message_id; an id that names no stored message updates and finds nothing.
ReadMessageRead(c, conv, id) ==
    /\ CanRead(c)
    /\ IF id # 0
       THEN /\ msgs' = MarkMessageAsRead(msgs, id, userID[c])
            /\ IF id \in DOMAIN msgs /\ msgs[id].sender # userID[c]
               THEN SendToUser(msgs[id].sender, StatusFrame(id, userID[c]))
               ELSE UNCHANGED <<broadcast, mark>>
       ELSE /\ msgs' = MarkConversationAsRead(msgs, conv, userID[c])
            /\ UNCHANGED <<broadcast, mark>>
    /\ UNCHANGED <<feVars, contacts, convs, lastSeen, dbErr, clients, notify, connVars, creq, unregs, auxVars, wire>>

\* ----------------------------------------------------- Client.writePump
\* What a frame written to the transport adds to the observed order.
Written(w, f) == IF f.tag = 0 THEN w ELSE Append(w, f.tag)

\* case message, ok := <-c.Send: the oldest frame of the queue.
TakeFrame(q) == [frame |-> Head(q), rest |-> Tail(q)]

\* case message, ok := <-c.Send with ok: the frame is written; on a closed
\* transport the write fails and writePump returns.
WriteFrame(c) ==
    /\ wpc[c] = "run"
    /\ Send[c] # <<>>
    /\ Send' = [Send EXCEPT ![c] = TakeFrame(@).rest]
    /\ IF ConnClosed(c)
       THEN /\ wpc' = [wpc EXCEPT ![c] = "done"]
            /\ UNCHANGED wire
       ELSE /\ wire' = [wire EXCEPT ![c] = Written(@, TakeFrame(Send[c]).frame)]
            /\ UNCHANGED wpc
    /\ UNCHANGED <<feVars, storeVars, hubVars, userID, sendClosed, rpc, pend, panicked, creq, unregs, auxVars, mark>>

\* case message, ok := <-c.Send with !ok (closed and drained): the close
\* frame is written and writePump returns, closing the transport.
WriteClosed(c) ==
    /\ wpc[c] = "run"
    /\ Send[c] = <<>> /\ sendClosed[c]
    /\ wpc' = [wpc EXCEPT ![c] = "done"]
    /\ UNCHANGED <<feVars, storeVars, hubVars, userID, Send, sendClosed, rpc, pend, panicked,
                   creq, unregs, auxVars, mark, wire>>

\* case <-ticker.C: the keepalive ping is written to an open transport.
\* Nothing is armed for its acknowledgement: no pong handler is installed and
\* no read deadline is set.
WritePing(c) ==
    /\ wpc[c] = "run" /\ ~ConnClosed(c)
    /\ probes' = [probes EXCEPT ![c] = 1 - @]
    /\ UNCHANGED <<feVars, storeVars, hubVars, connVars, creq, unregs, hreq, drops, refused, hubWait,
                   mark, wire>>

\* A write fails on an open transport (case <-ticker.C, or a frame that is
\* lost with the connection): writePump returns, closing the transport.
WriteError(c) ==
    /\ wpc[c] = "run"
    /\ wpc' = [wpc EXCEPT ![c] = "done"]
    /\ UNCHANGED <<feVars, storeVars, hubVars, userID, Send, sendClosed, rpc, pend, panicked,
                   creq, unregs, auxVars, mark, wire>>

\* ------------------------------------------------------- HTTP handlers
\* handlers.GetMessages: members only; the fetch marks the conversation read.
HttpGetMessages(u, conv) ==
    /\ \E ok \in BOOLEAN :
          IF ok /\ IsMember(convs, conv, u)
          THEN /\ msgs' = MarkConversationAsRead(msgs, conv, u)
               /\ UNCHANGED dbErr
          ELSE /\ dbErr' = (dbErr \/ ~ok)
               /\ UNCHANGED msgs
    /\ UNCHANGED <<feVars, contacts, convs, lastSeen, hubVars, connVars, creq, unregs, auxVars, mark, wire>>

\* handlers.CreateConversation: a request of user u for a private
\* conversation with another, existing user o.
CreateConversation(u, o) ==
    /\ Len(creq) < MaxReqs
    /\ u # o
    /\ creq' = Append(creq, [user |-> u, other |-> o, pc |-> "find", conv |-> 0])
    /\ UNCHANGED <<feVars, storeVars, hubVars, connVars, unregs, auxVars, mark, wire>>

\* models.GetOrCreatePrivateConversation, first half: FindPrivateConversation;
\* a conversation that is found is returned, an error or a miss goes on to
\* create one.
GetOrCreateFind(r) ==
    /\ creq[r].pc = "find"
    /\ \E ok \in BOOLEAN :
          LET found == FindPrivateConversation(convs, creq[r].user, creq[r].other) IN
          /\ creq' = [creq EXCEPT ![r] = IF ok /\ found # 0
                                         THEN [@ EXCEPT !.pc = "done", !.conv = found]
                                         ELSE [@ EXCEPT !.pc = "create"]]
          /\ dbErr' = (dbErr \/ ~ok)
    /\ UNCHANGED <<feVars, contacts, convs, msgs, lastSeen, hubVars, connVars, unregs, auxVars, mark, wire>>

\* models.GetOrCreatePrivateConversation, second half: CreateConversation
\* inserts the record, or fails and the request is answered with an error.
GetOrCreateInsert(r) ==
    /\ creq[r].pc = "create"
    /\ \E ok \in BOOLEAN :
          IF ok
          THEN /\ convs' = Append(convs, [type |-> "private",
                                          members |-> <<creq[r].user, creq[r].other>>,
                                          admin |-> NoVal])
               /\ creq' = [creq EXCEPT ![r] = [@ EXCEPT !.pc = "done", !.conv = Len(convs) + 1]]
               /\ UNCHANGED dbErr
          ELSE /\ creq' = [creq EXCEPT ![r] = [@ EXCEPT !.pc = "failed"]]
               /\ dbErr' = TRUE
               /\ UNCHANGED convs
    /\ UNCHANGED <<feVars, contacts, msgs, lastSeen, hubVars, connVars, unregs, auxVars, mark, wire>>

\* ------------------------------------------------------------------- Next
\* Registry, presence and fan-out.
Next ==
    \/ \E u \in Tokens : HubRegister(u)
    \/ \E c \in Conns : HubUnregister(c)
    \/ HubBroadcast
    \/ \E t \in BagToSet(notify) : NotifySend(t)
    \/ \E c \in Conns : WriteFrame(c)
    \/ \E c \in Conns : WriteClosed(c)
    \/ \E c \in Conns : WriteError(c)

Spec == Init /\ [][Next]_vars

SpecFifo == InitFifo /\ [][Next]_vars

\* The send pipeline between the sessions of A and B: pings and message:send
\* frames.  A peer may go away and a write may fail at any time.
NextMsg ==
    \/ \E c \in Conns : ReadPing(c)
    \/ \E c \in Conns, conv \in DOMAIN convs, content \in Contents, temp \in TempIds :
          Len(msgs) < MaxMsgs /\ ReadSendMessage(c, conv, content, temp)
    \/ \E c \in Conns : HandlerBroadcast(c)
    \/ \E c \in Conns : HubUnregister(c)
    \/ HubBroadcast
    \/ \E c \in Conns : WriteFrame(c)
    \/ \E c \in Conns : WriteClosed(c)
    \/ \E c \in Conns : WriteError(c)

SpecMsg == InitMsg /\ [][NextMsg]_vars

\* Messages and their reads between the sessions of A and B, and over HTTP.
\* No peer goes away; writes to an open transport succeed.
NextRead ==
    \/ \E c \in Conns, conv \in DOMAIN convs, content \in Contents, temp \in TempIds :
          Len(msgs) < MaxMsgs /\ ReadSendMessage(c, conv, content, temp)
    \/ \E c \in Conns : HandlerBroadcast(c)
    \/ \E c \in Conns, conv \in DOMAIN convs, id \in 0..Len(msgs) : ReadMessageRead(c, conv, id)
    \/ \E u \in Users, conv \in DOMAIN convs : HttpGetMessages(u, conv)
    \/ \E c \in Conns : ReadClosed(c)
    \/ HubBroadcast
    \/ \E c \in Conns : WriteFrame(c)
    \/ \E c \in Conns : WriteClosed(c)

SpecRead == InitMsg /\ [][NextRead]_vars

\* Concurrent senders: A and B send messages, the hub dispatches, the pumps
\* write; no connection goes away.
NextDur ==
    \/ \E c \in Conns, conv \in DOMAIN convs, content \in Contents, temp \in TempIds :
          Len(msgs) < MaxSends /\ ReadSendMessage(c, conv, content, temp)
    \/ \E c \in Conns : HandlerBroadcast(c)
    \/ \E c \in Conns : ReadClosed(c)
    \/ HubBroadcast
    \/ \E c \in Conns : WriteFrame(c)
    \/ \E c \in Conns : WriteClosed(c)

SpecDur == InitMsg /\ [][NextDur]_vars

\* Validation of message:send: frames with and without content, with a
\* known, an unknown and an undecodable conversation id, from a member (A)
\* and from a non-member (B).
NextVal ==
    \/ \E c \in Conns, conv \in 0..(Len(convs) + 1), content \in Contents \cup {""},
          temp \in TempIds :
          Len(msgs) < MaxMsgs /\ ReadSendMessage(c, conv, content, temp)
    \/ \E c \in Conns : HandlerBroadcast(c)
    \/ \E c \in Conns : HubUnregister(c)
    \/ HubBroadcast
    \/ \E c \in Conns : WriteFrame(c)
    \/ \E c \in Conns : WriteClosed(c)

SpecVal == InitVal /\ [][NextVal]_vars

\* Full queues: pings and typing events between the sessions of A and B.
NextLive ==
    \/ \E c \in Conns : ReadPing(c)
    \/ \E c \in Conns, conv \in DOMAIN convs, isTyping \in BOOLEAN : ReadTyping(c, conv, isTyping)
    \/ \E c \in Conns : HubUnregister(c)
    \/ HubBroadcast
    \/ \E c \in Conns : WriteFrame(c)
    \/ \E c \in Conns : WriteClosed(c)
    \/ \E c \in Conns : WriteError(c)

\* What the scheduler guarantees: the hub goroutine serves its channels, a
\* goroutine parked on Hub.Unregister is served, and a read on a transport
\* that was closed locally returns.  Nothing bounds the time a write to the
\* peer takes (writeWait is never applied), nor the time until the peer sends
\* or goes away (pongWait is never applied).
FairLive ==
    /\ WF_vars(HubBroadcast)
    /\ \A c \in DOMAIN Sessions :
          /\ WF_vars(rpc[c] # "read" /\ HubUnregister(c))
          /\ WF_vars(ReadClosed(c))

SpecLive == InitMsg /\ [][NextLive]_vars /\ FairLive

\* FairLive, and a write to a transport that was closed locally fails at once.
FairTerm ==
    /\ FairLive
    /\ \A c \in DOMAIN Sessions :
          /\ WF_vars(ConnClosed(c) /\ WriteFrame(c))
          /\ WF_vars(ConnClosed(c) /\ WriteClosed(c))

SpecTerm == InitMsg /\ [][NextLive]_vars /\ FairTerm

\* Fan-out of typing events to a user with two connections; no peer goes
\* away, writes to an open transport succeed.
NextFan ==
    \/ \E c \in Conns, conv \in DOMAIN convs, isTyping \in BOOLEAN : ReadTyping(c, conv, isTyping)
    \/ \E c \in Conns : ReadClosed(c)
    \/ HubBroadcast
    \/ \E c \in Conns : WriteFrame(c)
    \/ \E c \in Conns : WriteClosed(c)

SpecFan == InitFan /\ [][NextFan]_vars

\* Registry and presence with refused connection attempts.
NextAuth ==
    \/ \E u \in Tokens : HubRegister(u)
    \/ \E cred \in Credentials : RejectConnection(cred)
    \/ \E c \in Conns : HubUnregister(c)
    \/ HubBroadcast
    \/ \E t \in BagToSet(notify) : NotifySend(t)
    \/ \E c \in Conns : WriteFrame(c)
    \/ \E c \in Conns : WriteClosed(c)

SpecAuth == Init /\ [][NextAuth]_vars

\* Two sessions that send pings and frames that are not understood.
NextDrop ==
    \/ \E c \in Conns : ReadDropped(c)
    \/ \E c \in Conns : ReadPing(c)
    \/ \E c \in Conns : HubUnregister(c)
    \/ \E c \in Conns : WriteFrame(c)
    \/ \E c \in Conns : WriteClosed(c)
    \/ \E c \in Conns : WriteError(c)

SpecDrop == InitMsg /\ [][NextDrop]_vars

\* handlers.RemoveGroupMember by user u: the notifications of an accepted
\* removal, the removed member first, then every member of the group as it was
\* read before the removal, except the removed one.
RemovalNotices(conv, members, member) ==
    <<[users |-> <<member>>, frame |-> GroupRemovedFrame(conv)]>>
       \o [i \in 1..Len(Pull(members, member)) |->
             [users |-> <<Pull(members, member)[i]>>,
              frame |-> MemberRemovedFrame(conv, member)]]

\* handlers.RemoveGroupMember up to models.RemoveGroupMember: the group is
\* read (404 on failure), the requester must be the admin or the member
\* itself (403), the admin cannot be removed (400), the member is pulled (500
\* on failure); a refused request changes nothing.  The handler then hands its
\* notifications to the hub one by one.
HttpRemoveGroupMember(u, conv, member) ==
    /\ BagCardinality(hreq) < MaxHandlers
    /\ \E okFind, okPull \in BOOLEAN :
          IF ~okFind \/ conv \notin DOMAIN convs
          THEN /\ dbErr' = (dbErr \/ ~okFind)
               /\ UNCHANGED <<convs, hreq>>
          ELSE IF (convs[conv].admin # u /\ member # u) \/ member = convs[conv].admin
          THEN UNCHANGED <<convs, hreq, dbErr>>
          ELSE IF ~okPull
          THEN /\ dbErr' = TRUE
               /\ UNCHANGED <<convs, hreq>>
          ELSE /\ convs' = [convs EXCEPT ![conv].members = Pull(@, member)]
               /\ hreq' = hreq (+) SetToBag({RemovalNotices(conv, convs[conv].members, member)})
               /\ UNCHANGED dbErr
    /\ UNCHANGED <<feVars, contacts, msgs, lastSeen, hubVars, connVars, creq, unregs, drops, refused, probes, hubWait,
                   mark, wire>>

\* member.ToPublic(websocket.Hub.IsOnline(memberID)) of group:member_added,
\* evaluated for each notification.
Stamped(f) ==
    IF f.type = "group:member_added"
    THEN [f EXCEPT !.status = IF IsOnline(f.user) THEN "online" ELSE "offline"]
    ELSE f

\* websocket.Hub.SendToUser of a running handlers.RemoveGroupMember: the next
\* notification is handed to the hub; after the last one the handler returns.
\* The handlers that add a member and that leave a group go on the same way.
HttpNotify(t) ==
    /\ BagIn(t, hreq)
    /\ SendToUsers(Head(t).users, Stamped(Head(t).frame))
    /\ hreq' = IF Tail(t) = <<>>
               THEN hreq (-) SetToBag({t})
               ELSE (hreq (-) SetToBag({t})) (+) SetToBag({Tail(t)})
    /\ UNCHANGED <<feVars, storeVars, clients, notify, connVars, creq, unregs, drops, refused, probes, hubWait, wire>>

\* handlers.AddGroupMember by user u: only the admin adds (403), the user to
\* add must be found (404), $addToSet may fail (500).  The new member is
\* notified first, then every member of the group as it was read.
AdditionNotices(conv, members, member) ==
    <<[users |-> <<member>>, frame |-> GroupAddedFrame(conv)]>>
       \o [i \in 1..Len(members) |->
             [users |-> <<members[i]>>, frame |-> MemberAddedFrame(conv, member)]]

HttpAddGroupMember(u, conv, member) ==
    /\ BagCardinality(hreq) < MaxHandlers
    /\ \E okFind, okUser, okAdd \in BOOLEAN :
          IF ~okFind \/ conv \notin DOMAIN convs
          THEN /\ dbErr' = (dbErr \/ ~okFind)
               /\ UNCHANGED <<convs, hreq>>
          ELSE IF convs[conv].admin # u
          THEN UNCHANGED <<convs, hreq, dbErr>>
          ELSE IF ~okUser \/ ~okAdd
          THEN /\ dbErr' = TRUE
               /\ UNCHANGED <<convs, hreq>>
          ELSE /\ convs' = [convs EXCEPT ![conv].members = AddToSet(@, member)]
               /\ hreq' = hreq (+) SetToBag({AdditionNotices(conv, convs[conv].members, member)})
               /\ UNCHANGED dbErr
    /\ UNCHANGED <<feVars, contacts, msgs, lastSeen, hubVars, connVars, creq, unregs, drops, refused,
                   probes, hubWait, mark, wire>>

\* Variant: the admin may leave like any other member.
HttpLeaveGroupAnyone(u, conv) ==
    /\ BagCardinality(hreq) < MaxHandlers
    /\ conv \in DOMAIN convs
    /\ convs' = [convs EXCEPT ![conv].members = Pull(@, u)]
    /\ UNCHANGED <<feVars, contacts, msgs, lastSeen, dbErr, hubVars, connVars, creq, unregs, auxVars,
                   mark, wire>>

\* handlers.LeaveGroup by user u: the admin cannot leave (400), $pull may fail
\* (500).  Every other member of the group as it was read is notified.
DepartureNotices(conv, members, member) ==
    [i \in 1..Len(Pull(members, member)) |->
        [users |-> <<Pull(members, member)[i]>>, frame |-> MemberLeftFrame(conv, member)]]

HttpLeaveGroup(u, conv) ==
    /\ BagCardinality(hreq) < MaxHandlers
    /\ \E okFind, okPull \in BOOLEAN :
          IF ~okFind \/ conv \notin DOMAIN convs
          THEN /\ dbErr' = (dbErr \/ ~okFind)
               /\ UNCHANGED <<convs, hreq>>
          ELSE IF convs[conv].admin = u
          THEN UNCHANGED <<convs, hreq, dbErr>>
          ELSE IF ~okPull
          THEN /\ dbErr' = TRUE
               /\ UNCHANGED <<convs, hreq>>
          ELSE /\ convs' = [convs EXCEPT ![conv].members = Pull(@, u)]
               /\ hreq' = IF DepartureNotices(conv, convs[conv].members, u) = <<>>
                          THEN hreq
                          ELSE hreq (+) SetToBag({DepartureNotices(conv, convs[conv].members, u)})
               /\ UNCHANGED dbErr
    /\ UNCHANGED <<feVars, contacts, msgs, lastSeen, hubVars, connVars, creq, unregs, drops, refused,
                   probes, hubWait, mark, wire>>

\* The member lists a group of all users is created with by adminID: two or
\* three ids that name both other users, and may name the creator or a user
\* twice.
MemberLists(adminID) ==
    {ms \in [1..2 -> Users] \cup [1..3 -> Users] : Range(ms) \cup {adminID} = Users}

\* One group, as handlers.CreateGroup stored it for its creator A; nobody is
\* connected.
InitAdm ==
    /\ NewHub
    /\ contacts = NoContacts
    /\ \E ms \in MemberLists("A") : convs = <<CreateGroup("A", ms)>>
    /\ msgs = <<>>
    /\ lastSeen = [u \in Users |-> 0]
    /\ dbErr = FALSE
    /\ mark = 2
    /\ ClientApp

\* Requests to add, remove and leave, by anyone about anyone.
NextAdm ==
    \/ \E u \in Users, conv \in DOMAIN convs, member \in Users :
          HttpAddGroupMember(u, conv, member)
    \/ \E u \in Users, conv \in DOMAIN convs, member \in Users :
          HttpRemoveGroupMember(u, conv, member)
    \/ \E u \in Users, conv \in DOMAIN convs : HttpLeaveGroup(u, conv)
    \/ \E t \in BagToSet(hreq) : HttpNotify(t)
    \/ HubBroadcast

SpecAdm == InitAdm /\ [][NextAdm]_vars

\* The members whose removal is requested.
Removed == {"B"}

\* Typing events in a group from which B is removed meanwhile, by the admin A
\* or by B itself; requests of C are refused.
NextGrp ==
    \/ \E c \in Conns, conv \in DOMAIN convs : ReadTyping(c, conv, TRUE)
    \/ \E u \in Users, conv \in DOMAIN convs, member \in Removed :
          HttpRemoveGroupMember(u, conv, member)
    \/ \E t \in BagToSet(hreq) : HttpNotify(t)
    \/ \E c \in Conns : HubUnregister(c)
    \/ HubBroadcast
    \/ \E c \in Conns : WriteFrame(c)

SpecGrp == InitMsg /\ [][NextGrp]_vars

\* A and B are connected and send messages, typing events and read receipts
\* that name the private conversation of A and C.
NextNon ==
    \/ \E c \in Conns, conv \in DOMAIN convs, content \in Contents, temp \in TempIds :
          Len(msgs) < MaxMsgs /\ ReadSendMessage(c, conv, content, temp)
    \/ \E c \in Conns : HandlerBroadcast(c)
    \/ \E c \in Conns, conv \in DOMAIN convs, isTyping \in BOOLEAN : ReadTyping(c, conv, isTyping)
    \/ \E c \in Conns, conv \in DOMAIN convs, id \in 0..Len(msgs) : ReadMessageRead(c, conv, id)
    \/ HubBroadcast
    \/ \E c \in Conns : WriteFrame(c)

SpecNon == InitVal /\ [][NextNon]_vars

\* Messages in two conversations and their read receipts.
NextCatch ==
    \/ \E c \in Conns, conv \in DOMAIN convs, content \in Contents :
          Len(msgs) < MaxMsgs /\ ReadSendMessage(c, conv, content, "t1")
    \/ \E c \in Conns : HandlerBroadcast(c)
    \/ \E c \in Conns, conv \in DOMAIN convs, id \in 0..Len(msgs) : ReadMessageRead(c, conv, id)
    \/ HubBroadcast
    \/ \E c \in Conns : WriteFrame(c)

SpecCatch == InitCatch /\ [][NextCatch]_vars

\* The connection whose peer sends nothing at all: no frame, no pong, no close.
Idle == 1

\* The session of A is idle while the session of B sends pings and typing
\* events; pings and frames are written to both, and a write may fail.
NextIdle ==
    \/ \E c \in Conns \ {Idle} : ReadPing(c)
    \/ \E c \in Conns \ {Idle}, conv \in DOMAIN convs : ReadTyping(c, conv, TRUE)
    \/ \E c \in Conns : ReadClosed(c)
    \/ \E c \in Conns \ {Idle} : HubUnregister(c)
    \/ HubBroadcast
    \/ \E c \in Conns : WritePing(c)
    \/ \E c \in Conns : WriteFrame(c)
    \/ \E c \in Conns : WriteClosed(c)
    \/ \E c \in Conns : WriteError(c)

\* The hub serves its channels, a parked Hub.Unregister is served, a read on
\* a locally closed transport returns, and every write to the idle connection
\* succeeds in time: its ticker fires and its queue is drained.
FairIdle ==
    /\ WF_vars(HubBroadcast)
    /\ \A c \in DOMAIN Sessions :
          /\ WF_vars(rpc[c] # "read" /\ HubUnregister(c))
          /\ WF_vars(ReadClosed(c))
    /\ WF_vars(WritePing(Idle))
    /\ WF_vars(WriteFrame(Idle))
    /\ WF_vars(WriteClosed(Idle))

SpecIdle == InitMsg /\ [][NextIdle]_vars /\ FairIdle

\* Registry and presence, with the storage call of the unregister branch as a
\* step of its own.
NextPres ==
    \/ \E u \in Tokens : HubRegister(u)
    \/ \E c \in Conns : HubUnregisterReceive(c)
    \/ HubLastSeenDone
    \/ HubBroadcast
    \/ \E t \in BagToSet(notify) : NotifySend(t)
    \/ \E c \in Conns : WriteFrame(c)
    \/ \E c \in Conns : WriteClosed(c)

SpecPres == Init /\ [][NextPres]_vars

\* Concurrent requests for private conversations.
NextConv ==
    \/ \E u \in Users, o \in Users : CreateConversation(u, o)
    \/ \E r \in DOMAIN creq : GetOrCreateFind(r)
    \/ \E r \in DOMAIN creq : GetOrCreateInsert(r)

SpecConv == InitConv /\ [][NextConv]_vars

\* The browser client alone: its socket, the store of the connection and
\* the message list.  The hub is not connected to anything.
InitApp == NewHub /\ EmptyStore /\ contacts = NoContacts /\ mark = 2 /\ ClientApp

NextSock ==
    \/ StoreConnect
    \/ StoreDisconnect
    \/ \E s \in Sockets : OnOpen(s)
    \/ \E s \in Sockets : OnClose(s)
    \/ \E i \in DOMAIN timeouts : TimeoutFires(i)
    \/ \E s \in Sockets, conv \in ConvIds : OnMessageNew(s, conv)
    \/ \E conv \in ConvIds : SetCurrentConversation(conv)

SpecSock == InitApp /\ [][NextSock]_vars

\* The presence state of the chat store: fetches and presence events.
NextOnline ==
    \/ \E u \in Users, isOnline \in BOOLEAN : OnPresence(u, isOnline)
    \/ \E response \in ContactsResponses : FetchContacts(response)
    \/ \E response \in ConversationsResponses : FetchConversations(response)

SpecOnline == InitApp /\ [][NextOnline]_vars

\* The typing state of one typist, as the receiver holds it.
NextTyping ==
    \/ HandleTyping
    \/ TypingTimeoutFires
    \/ TypistCloses
    \/ RelayLoses
    \/ OnTyping

\* A pending timeout fires, and a frame that arrived is handled.
FairTyping == WF_vars(TypingTimeoutFires) /\ WF_vars(OnTyping)

SpecTyping == InitApp /\ [][NextTyping]_vars /\ FairTyping

\* ----------------------------------------------------------------- claims
\* The connections that the registry holds for a user.
Held(u) == {c \in Conns : Registered(clients, userID[c], c) /\ userID[c] = u}

\* C1: IsOnline(u) is true exactly when the registry holds at least one
\* connection of u.
C1_IsOnlineIffHeld == \A u \in Users : IsOnline(u) <=> Held(u) # {}

\* C1, its case: the hub has evicted the only connection of a user, whose key
\* stays in the registry with an empty set, and IsOnline is false for it.
C1_Witness == \E u \in Users : HasKey(clients, u) /\ clients[u] = {} /\ ~IsOnline(u)

\* C2: a user id is a key of the registry exactly when its set of connections
\* is not empty, and GetOnlineUsers returns exactly the users with at least
\* one connection.
C2_KeyIffNonEmpty ==
    /\ \A u \in Users : HasKey(clients, u) <=> ConnsOf(clients, u) # {}
    /\ GetOnlineUsers = {u \in Users : Held(u) # {}}

\* C3: a registration of a user that already has a connection starts no
\* presence notification: contacts are told user:online only when the first
\* connection of the user registers.
C3_OnlineOnlyOnFirst ==
    [][(Len(rpc') = Len(rpc) + 1 /\ ConnsOf(clients, userID'[Len(rpc')]) # {})
          => notify' = notify]_vars

\* C4: in every step in which the last connection of a user leaves the
\* registry, whatever the cause, the last-seen time of the user is written
\* and one notification of user:offline to each contact is started, as long
\* as no storage call has failed.
C4_OfflineOnLastClose ==
    [][\A u \in Users :
          (ConnsOf(clients, u) # {} /\ ConnsOf(clients', u) = {} /\ ~dbErr')
             => /\ lastSeen'[u] = lastSeen[u] + 1
                /\ notify' = notify (+) SetToBag({[user |-> u, online |-> FALSE,
                                                    todo |-> contacts[u]]})]_vars

C6_Isolation ==
    [][(broadcast # <<>> /\ broadcast' = Tail(broadcast))
          => LET m == Head(broadcast)
                 targets == {c \in Conns : Registered(clients, userID[c], c)
                                           /\ userID[c] \in Range(m.users)}
             IN  \A c \in Conns :
                    IF c \in targets /\ Len(Send[c]) >= SendCap
                    THEN /\ sendClosed'[c]
                         /\ ~Registered(clients', userID[c], c)
                         /\ Send'[c] = Send[c]
                    ELSE IF c \in targets
                    THEN /\ Send'[c] = Append(Send[c], m.frame)
                         /\ Registered(clients', userID[c], c)
                         /\ ~sendClosed'[c]
                    ELSE /\ Send'[c] = Send[c]
                         /\ sendClosed'[c] = sendClosed[c]
                         /\ Registered(clients', userID[c], c)
                               <=> Registered(clients, userID[c], c)]_vars

\* C6, its case: the hub has evicted one connection of a user on a full
\* queue (the connection has not unregistered itself), and the other
\* connection of the same user is registered, open and holds an event.
C6_Witness ==
    \E c, d \in Conns :
       /\ c # d /\ userID[c] = userID[d]
       /\ sendClosed[c] /\ ~Registered(clients, userID[c], c)
       /\ rpc[c] = "read" /\ Len(Send[c]) = SendCap
       /\ Registered(clients, userID[d], d) /\ ~sendClosed[d] /\ Send[d] # <<>>

Rank(status) == CASE status = "sent" -> 1 [] status = "delivered" -> 2 [] status = "read" -> 3

\* C7: no step lowers the status of a stored message in the order
\* sent < delivered < read.
C7_StatusMonotone ==
    [][\A i \in DOMAIN msgs : Rank(msgs'[i].status) >= Rank(msgs[i].status)]_vars

\* C7, its case: a message that was read by message id (status read) has
\* afterwards been covered by a conversation-level read of a third member.
C7_Witness ==
    \E i \in DOMAIN msgs : msgs[i].status = "read" /\ Cardinality(msgs[i].readBy) = 3

\* The private conversations stored for an unordered pair of users.
PrivateOf(u, o) ==
    {i \in DOMAIN convs : convs[i].type = "private" /\ Range(convs[i].members) = {u, o}}

\* C8: once two requests for the same unordered pair of users have both
\* returned, with no storage failure, exactly one private conversation is
\* stored for the pair and both requests have returned it.
C8_OneRecordPerPair ==
    \A r1, r2 \in DOMAIN creq :
       (/\ r1 # r2
        /\ creq[r1].pc = "done" /\ creq[r2].pc = "done"
        /\ {creq[r1].user, creq[r1].other} = {creq[r2].user, creq[r2].other}
        /\ ~dbErr)
          => /\ creq[r1].conv = creq[r2].conv
             /\ Cardinality(PrivateOf(creq[r1].user, creq[r1].other)) = 1

\* The members of a stored conversation other than u, in stored order.
Others(conv, u) == SelectSeq(convs[conv].members, LAMBDA x : x # u)

\* The acknowledgement that a message:send with token temp is owed.
Ack(temp, id) ==
    [type |-> "message:sent", user |-> NoVal, conv |-> 0, msg |-> id, temp |-> temp,
     content |-> NoVal, status |-> "sent", tag |-> 0]

\* The message:new event of the message that sender has just stored.
NewEvent(sender, conv, id, content) ==
    [type |-> "message:new", user |-> sender, conv |-> conv, msg |-> id, temp |-> NoVal,
     content |-> content, status |-> "sent", tag |-> 0]

StatusEvent(id, reader) ==
    [type |-> "message:status", user |-> reader, conv |-> 0, msg |-> id, temp |-> NoVal,
     content |-> NoVal, status |-> "read", tag |-> 0]

AboutMessage(f) == f.type \in {"message:sent", "message:new"}

\* The message an event refers to is stored, and a message:new carries the
\* stored sender and content.
Durable(f) ==
    /\ f.msg \in DOMAIN msgs
    /\ f.type = "message:new"
          => msgs[f.msg].sender = f.user /\ msgs[f.msg].content = f.content

\* C11: every message:sent and message:new that is on an outbound queue, or
\* handed to the hub, refers to a message whose insert has completed, also
\* while two members of the conversation send concurrently.
C11_DurableBeforeEvent ==
    /\ \A c \in Conns : \A k \in DOMAIN Send[c] :
          AboutMessage(Send[c][k]) => Durable(Send[c][k])
    /\ \A k \in DOMAIN broadcast :
          AboutMessage(broadcast[k].frame) => Durable(broadcast[k].frame)

\* C11, its case: two members have sent; message:new of the second message is
\* on a queue while the handler of the first sender has not yet handed over
\* its own broadcast.
C11_Witness ==
    /\ Len(msgs) = 2 /\ msgs[1].sender # msgs[2].sender
    /\ \E c, d \in Conns :
          /\ userID[c] = msgs[1].sender /\ rpc[c] = "bcast" /\ pend[c].frame.msg = 1
          /\ \E k \in DOMAIN Send[d] : Send[d][k].type = "message:new" /\ Send[d][k].msg = 2

\* C12: a message:send of a member that stores nothing, because the insert
\* (or the membership check before it) failed, has no effect on the wire: no
\* queue and no hand-off to the hub changes, the registry is unchanged, no
\* queue is closed, no unregister is requested, and the handler has returned
\* to reading without keeping anything to send or to store.
C12_PersistFailureSilent ==
    [][\A c \in Conns, conv \in DOMAIN convs, content \in Contents, temp \in TempIds :
          (ReadSendMessage(c, conv, content, temp) /\ msgs' = msgs
           /\ userID[c] \in Range(convs[conv].members))
             => /\ Send' = Send /\ broadcast' = broadcast
                /\ clients' = clients /\ sendClosed' = sendClosed
                /\ unregs' = unregs /\ wpc' = wpc
                /\ rpc'[c] = "read" /\ pend'[c] = NoPend]_vars

\* C12, its case: a storage call of a message:send has failed, nothing is
\* stored, every queue is empty and every session is still registered, open
\* and reading.
C12_Witness ==
    /\ dbErr /\ msgs = <<>> /\ broadcast = <<>>
    /\ \A c \in Conns : /\ Send[c] = <<>> /\ ~sendClosed[c]
                        /\ Registered(clients, userID[c], c)
                        /\ rpc[c] = "read" /\ wpc[c] = "run" /\ unregs[c] = 0

\* C13: a message:send with empty or missing content, with a missing,
\* undecodable or unknown conversation id, from a user who is no member of the
\* conversation, or whose membership check fails, stores nothing and enqueues
\* nothing: stored messages and conversations, every queue, the hand-offs to
\* the hub and the registry are unchanged, and the connection goes on reading.
C13_InvalidSendSilent ==
    [][\A c \in Conns, conv \in 0..(Len(convs) + 1), content \in Contents \cup {""},
          temp \in TempIds :
          (/\ ReadSendMessage(c, conv, content, temp)
           /\ \/ content = ""
              \/ conv \notin DOMAIN convs
              \/ userID[c] \notin Range(convs[conv].members)
              \/ dbErr' /\ ~dbErr)
             => /\ msgs' = msgs /\ convs' = convs
                /\ Send' = Send /\ broadcast' = broadcast
                /\ clients' = clients /\ sendClosed' = sendClosed
                /\ unregs' = unregs /\ rpc' = rpc /\ pend' = pend]_vars

\* C13, its case: an invalid message:send has been read and given up, nothing
\* is stored, nothing is queued, and both sessions are registered and reading.
C13_Witness ==
    /\ drops > 0 /\ msgs = <<>> /\ broadcast = <<>>
    /\ \A c \in Conns : /\ Send[c] = <<>> /\ rpc[c] = "read"
                        /\ Registered(clients, userID[c], c)

\* C14: over the lifetime of a connection at most one unregister request
\* reaches the hub, and once its read loop has returned exactly one has.
C14_OneUnregister ==
    \A c \in Conns : /\ unregs[c] <= 1
                     /\ rpc[c] = "done" => unregs[c] = 1

\* C15: a connection whose queue was found full, by the hub (which closes the
\* queue at once) or by its own sendMessage (which asks to be unregistered),
\* is eventually out of the registry with its queue closed and its transport
\* closed.
C15_ForcedClose ==
    \A c \in DOMAIN Sessions :
       (sendClosed[c] \/ rpc[c] = "sm_unreg")
          ~> (sendClosed[c] /\ ~Registered(clients, userID[c], c) /\ ConnClosed(c))

\* C16: when the hub dispatches an event none of whose addressees has a
\* registered connection, the event is consumed and nothing else changes: no
\* queue, no registry entry, no stored data, no pending notification; and a
\* connection that registers starts with an empty queue.
C16_OfflineNoOp ==
    [][/\ (/\ broadcast # <<>> /\ broadcast' = Tail(broadcast)
           /\ \A u \in Range(Head(broadcast).users) : Held(u) = {})
             => /\ Send' = Send /\ sendClosed' = sendClosed /\ clients' = clients
                /\ notify' = notify /\ wire' = wire
                /\ UNCHANGED storeVars
       /\ Len(rpc') = Len(rpc) + 1 => Send'[Len(rpc')] = <<>>]_vars

\* C16, its case: the first observed event, addressed to B, has been
\* dispatched, and the connection of B, registered and open, neither holds nor
\* has written it: B registered after the dispatch.
C16_Witness ==
    /\ mark >= 1 /\ broadcast = <<>> /\ notify = EmptyBag /\ ~dbErr
    /\ \E b \in Conns : /\ userID[b] = "B" /\ Registered(clients, "B", b)
                        /\ ~sendClosed[b] /\ Send[b] = <<>> /\ wire[b] = <<>>

\* C18: when the hub dispatches an event, every connection registered for one
\* of its addressees whose queue has room gets the event appended to its queue,
\* whatever other connections the addressee has.
C18_AllDevices ==
    [][(broadcast # <<>> /\ broadcast' = Tail(broadcast))
          => \A u \in Range(Head(broadcast).users) :
                \A c \in Held(u) :
                   Len(Send[c]) < SendCap
                      => Send'[c] = Append(Send[c], Head(broadcast).frame)]_vars

\* C18, its case: two registered connections of one user hold the same event
\* at the end of their queues.
C18_Witness ==
    \E c, d \in Conns :
       /\ c # d /\ userID[c] = userID[d]
       /\ Registered(clients, userID[c], c) /\ Registered(clients, userID[d], d)
       /\ Send[c] # <<>> /\ Send[d] # <<>>
       /\ Send[c][Len(Send[c])] = Send[d][Len(Send[d])]
       /\ Send[c][Len(Send[c])].type = "user:typing"

\* C19: a connection attempt that is refused is sent exactly one error frame
\* before it is closed, and refusing it changes nothing else: the registry,
\* the connections and their loops, the pending presence notifications and
\* the events at the hub stay as they were.
C19_RefusedWithError ==
    [][Len(refused') > Len(refused)
          => /\ Len(refused'[Len(refused')]) = 1
             /\ refused'[Len(refused')][1].type = "error"
             /\ UNCHANGED <<storeVars, hubVars, connVars, unregs, wire>>]_vars

\* C20: the step that drops a malformed frame or a frame of unknown type
\* changes nothing but the count of dropped frames: no queue, no registry
\* entry, no stored data, no event at the hub, and the connection goes on
\* reading as before.
C20_DroppedAlone ==
    [][drops' # drops
          => /\ UNCHANGED <<storeVars, hubVars, connVars, creq, unregs, mark, wire>>
             /\ \A c \in Conns : CanRead(c) => (CanRead(c))']_vars

\* C20, its case: a frame has been dropped and a connection is registered,
\* open and reading with a pong in its queue.
C20_Witness ==
    /\ drops > 0
    /\ \E c \in Conns : /\ CanRead(c) /\ Registered(clients, userID[c], c)
                        /\ ~sendClosed[c] /\ Send[c] # <<>>
                        /\ Send[c][Len(Send[c])] = PongFrame

ConvEvents == {"user:typing", "user:typing_stop", "message:new"}

\* The event of a conversation that a step hands to the hub, if any.
HandsOver(e) == broadcast' = Append(broadcast, e) /\ e.frame.type \in ConvEvents

C21_NonMemberDropped ==
    [][\A c \in Conns, conv \in DOMAIN convs :
          ~IsMember(convs, conv, userID[c])
             => /\ \A isTyping \in BOOLEAN :
                      ReadTyping(c, conv, isTyping)
                         => broadcast' = broadcast /\ Send' = Send /\ msgs' = msgs
                /\ \A id \in 0..Len(msgs) :
                      ReadMessageRead(c, conv, id)
                         => broadcast' = broadcast /\ Send' = Send /\ msgs' = msgs]_vars

\* C22: the status of a stored message changes only in a step that handles a
\* message:read naming that message and the conversation of the message, sent
\* by a member of that conversation who is not the sender of the message.
C22_StatusOnlyByReceipt ==
    [][\A i \in DOMAIN msgs :
          msgs'[i].status # msgs[i].status
             => \E c \in Conns :
                   /\ ReadMessageRead(c, msgs[i].conv, i)
                   /\ IsMember(convs, msgs[i].conv, userID[c])
                   /\ userID[c] # msgs[i].sender]_vars

OutboundTypes ==
    {"pong", "message:sent", "message:new", "message:status", "user:typing",
     "user:typing_stop", "user:online", "user:offline", "group:created",
     "group:updated", "group:member_added", "group:member_removed", "error"}

\* C24: every frame on the outbound queue of a connection has one of the
\* recognized outbound types.
C24_KnownTypes ==
    \A c \in Conns : \A k \in DOMAIN Send[c] : Send[c][k].type \in OutboundTypes

\* C25: the connection on which no inbound frame ever arrives is eventually
\* closed and removed from the registry.
C25_IdleTimeout ==
    Registered(clients, userID[Idle], Idle)
       ~> (~Registered(clients, userID[Idle], Idle) /\ ConnClosed(Idle))

\* C26: once the transport of a connection is closed or its outbound queue is
\* closed by the hub, both readPump and writePump of the connection
\* eventually return.
C26_BothLoopsReturn ==
    \A c \in DOMAIN Sessions :
       (sendClosed[c] \/ ConnClosed(c)) ~> (rpc[c] = "done" /\ wpc[c] = "done")

C28_OnlyHubEnqueues ==
    [][\A c \in Conns :
          Len(Send'[c]) > Len(Send[c])
             => broadcast # <<>> /\ broadcast' = Tail(broadcast)]_vars

\* C29: while presence work of a register or unregister is pending (a
\* notifyOnlineStatus goroutine runs or last_seen is being written), the hub
\* can take its next request: it dispatches a waiting event, it accepts a new
\* registration and it accepts the unregister request of a client that asks.
C29_PresenceNeverBlocks ==
    (notify # EmptyBag \/ hubWait # NoVal)
       => /\ broadcast # <<>> => ENABLED HubBroadcast
          /\ Len(rpc) < MaxConns => \A u \in Tokens : ENABLED HubRegister(u)
          /\ \A c \in Conns : rpc[c] = "read" => ENABLED HubUnregisterReceive(c)

\* C30: when the hub receives the unregister request of a registered
\* connection whose user holds another connection, it removes and closes that
\* connection only: the user stays online with its other connections
\* registered and open, no presence goroutine is started and last_seen is not
\* written.  When the requesting connection is not in the registry, the
\* registry, the queues, the pending presence work and the stored data stay
\* as they were.
C30_NotLastUnregister ==
    [][\A c \in Conns :
          HubUnregister(c)
             => LET u == userID[c]
                    others == Held(u) \ {c}
                IN  /\ (Registered(clients, u, c) /\ others # {})
                          => /\ ~Registered(clients', u, c) /\ sendClosed'[c]
                             /\ (IsOnline(u))'
                             /\ \A d \in others : Registered(clients', u, d)
                             /\ \A d \in Conns \ {c} : sendClosed'[d] = sendClosed[d]
                             /\ \A v \in Users \ {u} : ConnsOf(clients', v) = ConnsOf(clients, v)
                             /\ Send' = Send /\ broadcast' = broadcast
                             /\ notify' = notify /\ lastSeen' = lastSeen
                    /\ ~Registered(clients, u, c)
                          => UNCHANGED <<hubVars, storeVars, Send, sendClosed>>]_vars

\* C30, its case: one of two connections of a user has been unregistered and
\* has returned; the other one is registered and open, last_seen of the user
\* was never written and no user:offline of the user is pending anywhere.
C30_Witness ==
    \E c, d \in Conns :
       /\ c # d /\ userID[c] = userID[d]
       /\ rpc[c] = "done" /\ unregs[c] = 1 /\ sendClosed[c]
       /\ Registered(clients, userID[d], d) /\ ~sendClosed[d]
       /\ lastSeen[userID[c]] = 0
       /\ \A t \in BagToSet(notify) : ~(t.user = userID[c] /\ ~t.online)
       /\ \A i \in DOMAIN broadcast : broadcast[i].frame.type # "user:offline"

\* C31: a step that stores a message stores it with status sent and the
\* sender as its only reader; no step removes a reader from a stored message,
\* and the sender is a reader of it after every step.
C31_SenderAlwaysReader ==
    [][/\ Len(msgs') >= Len(msgs)
       /\ \A i \in DOMAIN msgs' \ DOMAIN msgs :
             msgs'[i].status = "sent" /\ msgs'[i].readBy = {msgs'[i].sender}
       /\ \A i \in DOMAIN msgs :
             /\ msgs[i].readBy \subseteq msgs'[i].readBy
             /\ msgs'[i].sender = msgs[i].sender
             /\ msgs'[i].sender \in msgs'[i].readBy]_vars

\* C31, its case: a stored message has been read by id by another member and
\* its sender is still among its readers.
C31_Witness ==
    \E i \in DOMAIN msgs :
       /\ msgs[i].status = "read"
       /\ msgs[i].sender \in msgs[i].readBy
       /\ msgs[i].readBy # {msgs[i].sender}

\* C36: whenever the reader set of a stored message holds a user other than its
\* sender, the status of the message is read.
C36_StatusFollowsReaders ==
    \A i \in DOMAIN msgs :
       msgs[i].readBy # {msgs[i].sender} => msgs[i].status = "read"

\* C33: no read loop ever executes sendMessage on an outbound queue that the
\* hub has closed: the send on a closed channel is never attempted.
C33_NoSendOnClosed ==
    /\ ~panicked
    /\ \A c \in Conns : rpc[c] # "panic"

\* C35: a step closes the outbound queue of a connection exactly when it takes
\* the connection out of the registry, a connection out of the registry never
\* returns to it, and a closed queue stays closed: the queue is closed at most
\* once, and a connection whose queue is closed is not in the registry.
C35_ClosedOnce ==
    [][\A c \in Conns :
          /\ (Registered(clients, userID[c], c) /\ ~Registered(clients', userID'[c], c))
                <=> (~sendClosed[c] /\ sendClosed'[c])
          /\ ~Registered(clients, userID[c], c) => ~Registered(clients', userID'[c], c)
          /\ sendClosed[c] => sendClosed'[c]
          /\ sendClosed'[c] => ~Registered(clients', userID'[c], c)]_vars

\* The hub has served two unregister requests of one connection, and the
\* broadcast branch has evicted another, which made no request yet.
C35_Witness ==
    \E c, d \in Conns :
       /\ sendClosed[c] /\ unregs[c] = 2 /\ ~Registered(clients, userID[c], c)
       /\ sendClosed[d] /\ unregs[d] = 0 /\ ~Registered(clients, userID[d], d)

\* C34: once every presence notification has been handed over and dispatched,
\* and no storage call has failed, the last presence event in the queue of a
\* connection that was registered before every connection of the user the
\* event is about, and never unregistered, tells the registry state of that
\* user: user:online exactly if the user has a connection.
C34_LastPresenceMatches ==
    (notify = EmptyBag /\ broadcast = <<>> /\ hubWait = NoVal /\ ~dbErr) =>
       \A a \in Conns :
          (unregs[a] = 0 /\ ~sendClosed[a] /\ Send[a] # <<>>) =>
             LET f == Send[a][Len(Send[a])] IN
             (/\ f.type \in {"user:online", "user:offline"}
              /\ \A c \in Conns : userID[c] = f.user => a < c) =>
                ((f.type = "user:online") <=> IsOnline(f.user))

\* C37: while disconnect() has been called and connect() has not been called
\* since, no step builds a new socket, and the close event of a socket that
\* disconnect() closed schedules no reconnect attempt.
C37_NoReconnectAfterDisconnect ==
    [][(userClosed /\ userClosed') =>
          /\ Len(readyState') = Len(readyState)
          /\ \A s \in Sockets :
                (readyState[s] = "CLOSING" /\ readyState'[s] = "CLOSED") =>
                   timeouts' = timeouts]_vars

\* C38: the count of reconnect attempts stays within 0..5; a step that
\* schedules a reconnect starts below 5 attempts, counts one attempt and
\* schedules it after 1000 * 2^(k-1) ms for the k-th attempt (1s, 2s, 4s, 8s,
\* 16s); the count decreases only to 0 and only in a step in which a socket
\* opens; at 5 attempts no step schedules a reconnect.
C38_BoundedReconnect ==
    [][/\ reconnectAttempts' \in 0..5
       /\ Len(timeouts') > Len(timeouts) =>
             /\ reconnectAttempts < 5
             /\ reconnectAttempts' = reconnectAttempts + 1
             /\ timeouts' = Append(timeouts,
                                   <<1000, 2000, 4000, 8000, 16000>>[reconnectAttempts'])
       /\ reconnectAttempts' < reconnectAttempts =>
             /\ reconnectAttempts' = 0
             /\ \E s \in Sockets : readyState[s] = "CONNECTING" /\ readyState'[s] = "OPEN"
       /\ reconnectAttempts = 5 => Len(timeouts') <= Len(timeouts)]_vars

\* Five attempts in a row have failed, the socket of the fifth is closed as
\* well, and nothing is scheduled.
C38_Witness ==
    /\ reconnectAttempts = 5
    /\ timeouts = <<>>
    /\ Len(readyState) = 6
    /\ \A s \in Sockets : readyState[s] = "CLOSED"
    /\ ~userClosed

\* C40: a step appends at most one entry to the message list: one message:new
\* frame received adds at most one entry.
C40_OneEntryPerFrame ==
    [][Len(messages') <= Len(messages) + 1]_vars

\* C39: a call setUserOnline(u, flag) leaves the is_online flag of every
\* contact other than u, and of every conversation whose other_user is not u,
\* as it was.
C39_OnlyThatUser ==
    [][\A u \in Users, flag \in BOOLEAN :
          SetUserOnline(u, flag) =>
             /\ \A c \in DOMAIN chatContacts \ {u} : chatContacts'[c] = chatContacts[c]
             /\ \A k \in DOMAIN conversations :
                   conversations[k].other # u => conversations'[k] = conversations[k]]_vars

\* C32: the typist stops typing some time after the last keystroke, and a
\* receiver that shows the typist as typing in the conversation eventually
\* does not show it any more.
C32_TypingExpires ==
    /\ inputTyping ~> ~inputTyping
    /\ (1 \in DOMAIN typingUsers /\ Typist \in typingUsers[1])
          ~> ~(1 \in DOMAIN typingUsers /\ Typist \in typingUsers[1])

====
